---- MODULE Spec2Model ----
(***************************************************************************)
(* Verification model of the chess_lesson_engine core:                     *)
(*   - ExampleSelector (example_selector.py) over PuzzleDatabase.search    *)
(*   - PositionCache (cache.py) and evaluate_position (chess_utils.py)     *)
(*   - ContentGenerator (content_generator.py) and LessonBuilder           *)
(*     (lesson_builder.py)                                                 *)
(* Each component has its own specification (SpecSelector, SpecCache,      *)
(* SpecEval, SpecLesson) over the shared variable tuple; the variables of  *)
(* the other components stay at their initial value.                       *)
(*                                                                         *)
(* Scores are kept exact by scaling: quality_score is held in hundredths   *)
(* and a selection score is held multiplied by 30000, so that every      *)
(* weighted component of _calculate_selection_score is an integer.         *)
(***************************************************************************)
EXTENDS Integers, Sequences, FiniteSets, TLC

VARIABLES
    db,          \* PuzzleDatabase: the ids of the rows of lichess_puzzles
    config,      \* the LessonGenerationConfig of the last select_examples call
    candidates,  \* puzzle_examples built from the repository result of that call
    selected,    \* the list select_examples returned
    cache,       \* PositionCache._cache: key -> entry
    hits,        \* PositionCache._hits
    misses,      \* PositionCache._misses
    now,         \* time.time()
    file,        \* the durable cache file: absent, or the map last written
    ret,         \* the last cache / evaluate_position call and what it returned
    stored,      \* history: the arguments of the last set() per four-tuple
    calls,       \* history: the number of calls made so far
    lesson,      \* the last lesson LessonBuilder assembled, with its inputs
    request,     \* the last call made to the lesson builder or the engine
    stats,       \* ChessLessonEngine._stats
    estimate,    \* the last estimate_difficulty call and what it did
    unflushed,   \* history: the set() calls made since the file was last written
    threads,     \* the callers of the shared cache, each with its position in its call
    limiter      \* LichessClient.rate_limiter with the outcome of the last request

vars == <<db, config, candidates, selected, cache, hits, misses, now, file, ret,
          stored, calls, lesson, request, stats, estimate, unflushed, threads, limiter>>

selectorVars == <<db, config, candidates, selected>>
cacheVars == <<cache, hits, misses, now, file, ret, stored, calls>>
lessonVars == <<lesson, request, stats>>
estimateVars == <<estimate>>
flushVars == <<unflushed>>
threadVars == <<threads>>
limiterVars == <<limiter>>
otherVars == <<flushVars, threadVars, limiterVars>>

(***************************************************************************)
(* Bounds of the model.                                                    *)
(***************************************************************************)
PoolSize == 6
MaxCount == 4

(***************************************************************************)
(* Generic helpers for Python list operations.                             *)
(***************************************************************************)
Range(s) == {s[i] : i \in DOMAIN s}

Max(a, b) == IF a >= b THEN a ELSE b

Min(a, b) == IF a <= b THEN a ELSE b

Abs(x) == IF x < 0 THEN -x ELSE x

\* s[:n] for n >= 0
Take(s, n) == SubSeq(s, 1, Min(n, Len(s)))

\* s without its element at index i
RemoveAt(s, i) == SubSeq(s, 1, i - 1) \o SubSeq(s, i + 1, Len(s))

(***************************************************************************)
(* Text (Python str) operations used by the content generator and the      *)
(* lesson builder.  A text is a TLA+ string; a character is a string of    *)
(* length one.                                                             *)
(***************************************************************************)
CharAt(s, i) == SubSeq(s, i, i)

IsSpace(c) == c \in {" ", "\t", "\n"}

\* str.strip()
RECURSIVE lstrip(_)
lstrip(s) ==
    IF Len(s) > 0 /\ IsSpace(CharAt(s, 1)) THEN lstrip(SubSeq(s, 2, Len(s))) ELSE s

RECURSIVE rstrip(_)
rstrip(s) ==
    IF Len(s) > 0 /\ IsSpace(CharAt(s, Len(s))) THEN rstrip(SubSeq(s, 1, Len(s) - 1)) ELSE s

strip(s) == rstrip(lstrip(s))

UpperCase == "ABCDEFGHIJKLMNOPQRSTUVWXYZ"

LowerCase == "abcdefghijklmnopqrstuvwxyz"

LowerChar(c) ==
    LET at == {i \in 1 .. Len(UpperCase) : CharAt(UpperCase, i) = c}
    IN IF at = {} THEN c ELSE CharAt(LowerCase, CHOOSE i \in at : TRUE)

\* str.lower()
RECURSIVE lower(_)
lower(s) ==
    IF Len(s) = 0 THEN s ELSE LowerChar(CharAt(s, 1)) \o lower(SubSeq(s, 2, Len(s)))

UpperChar(c) ==
    LET at == {i \in 1 .. Len(LowerCase) : CharAt(LowerCase, i) = c}
    IN IF at = {} THEN c ELSE CharAt(UpperCase, CHOOSE i \in at : TRUE)

IsLetter(c) == LowerChar(c) # c \/ UpperChar(c) # c

\* str.title(): a letter is upper case after a non-letter (or at the start)
\* and lower case after a letter
RECURSIVE title_after(_, _)
title_after(s, after_letter) ==
    IF Len(s) = 0 THEN s
    ELSE LET c == CharAt(s, 1)
         IN (IF after_letter THEN LowerChar(c) ELSE UpperChar(c))
            \o title_after(SubSeq(s, 2, Len(s)), IsLetter(c))

title(s) == title_after(s, FALSE)

\* str.replace(old, new) for a one-character old
RECURSIVE replace(_, _, _)
replace(s, old, new) ==
    IF Len(s) = 0 THEN s
    ELSE (IF CharAt(s, 1) = old THEN new ELSE CharAt(s, 1))
         \o replace(SubSeq(s, 2, Len(s)), old, new)

\* sub in s
Contains(s, sub) ==
    \E i \in 1 .. (Len(s) - Len(sub) + 1) : SubSeq(s, i, i + Len(sub) - 1) = sub

\* str.split(): the maximal runs of non-whitespace characters, in order
RECURSIVE split(_)
split(s) ==
    LET t == lstrip(s)
        ends == {i \in 1 .. Len(t) : IsSpace(CharAt(t, i))}
        stop == IF ends = {} THEN Len(t) + 1 ELSE CHOOSE i \in ends : \A j \in ends : i <= j
    IN IF Len(t) = 0 THEN <<>>
       ELSE <<SubSeq(t, 1, stop - 1)>> \o split(SubSeq(t, stop, Len(t)))

\* ' '.join(words)
RECURSIVE join(_)
join(words) ==
    IF Len(words) = 0 THEN ""
    ELSE IF Len(words) = 1 THEN words[1]
    ELSE words[1] \o " " \o join(Tail(words))

(***************************************************************************)
(* Data model (models.py).                                                 *)
(***************************************************************************)
DifficultyLevel == {"beginner", "intermediate", "advanced", "expert"}

\* ExampleSelector._initialize_selection_weights: rating table per tier
difficulty_ranges ==
    [d \in DifficultyLevel |->
        CASE d = "beginner" -> [min |-> 600, max |-> 1200, optimal |-> 900]
          [] d = "intermediate" -> [min |-> 1200, max |-> 1800, optimal |-> 1500]
          [] d = "advanced" -> [min |-> 1800, max |-> 2400, optimal |-> 2100]
          [] d = "expert" -> [min |-> 2400, max |-> 3000, optimal |-> 2700]]

\* ExampleSelector.selection_weights, each multiplied by 30000
selection_weights ==
    [quality_score |-> 12000, rating_appropriateness |-> 9000,
     theme_relevance |-> 6000, diversity_bonus |-> 3000]

\* LessonGenerationConfig with its __post_init__ (the three weights are held
\* times 30000, as selection_weights): num_examples overrides example_count
\* when they differ; a rating bound left unset (None or 0) takes the tier default.
\* An unset bound is written 0 (Python tests both with "or").
MakeConfig(theme, difficulty, num_examples, example_count, threshold, progressive, min_rating, max_rating) ==
    [theme |-> theme,
     difficulty |-> difficulty,
     num_examples |-> num_examples,
     example_count |-> IF num_examples # example_count THEN num_examples
                       ELSE example_count,
     min_quality_threshold |-> threshold,
     enable_progressive_difficulty |-> progressive,
     include_analysis |-> TRUE,
     progressive_difficulty |-> TRUE,
     quality_weight |-> 12000,
     rating_weight |-> 9000,
     diversity_weight |-> 9000,
     min_rating |-> IF min_rating = 0 THEN difficulty_ranges[difficulty].min
                    ELSE min_rating,
     max_rating |-> IF max_rating = 0 THEN difficulty_ranges[difficulty].max
                    ELSE max_rating]

(***************************************************************************)
(* The repository: rows of lichess_puzzles (puzzle_id is the primary key). *)
(* Row i of the pool has the i-th rating, quality, popularity and themes   *)
(* of the lists below; (quality, rating) pairs are pairwise distinct, so   *)
(* ORDER BY quality_score DESC, rating DESC is a total order on the pool.  *)
(* Rows 2 and 4 have the same quality, popularity and theme relevance and  *)
(* ratings at the same distance from 1500: for the intermediate tier their *)
(* selection scores are the same number.                                   *)
(* fen and moves are TEXT columns the repository stores as imported: the   *)
(* pool holds positions with White to move, with Black to move, and a row  *)
(* whose fen is the board field alone.                                     *)
(***************************************************************************)
PoolFens ==
    <<"6k1/5ppp/8/8/8/8/8/R5K1 w - - 0 1", "r5k1/8/8/8/8/8/5PPP/6K1 b - - 0 1",
      "6k1/5ppp/8/8/8/8/8/R5K1">>

PoolMoves == <<"a1a8", "a8a1 g1h2", "a1a8 g8h7 a8a7 h7g6", "">>

PoolRatings == <<1250, 1399, 1500, 1601, 1750, 1300, 1450, 1650>>

PoolQualities == <<90, 70, 80, 70, 75, 85, 95, 72>>

\* popularity: known (an integer, 0 included) or None
PoolPopularity ==
    <<[known |-> TRUE, v |-> 500], [known |-> FALSE, v |-> 0],
      [known |-> TRUE, v |-> 0], [known |-> FALSE, v |-> 0],
      [known |-> FALSE, v |-> 0], [known |-> TRUE, v |-> 1500],
      [known |-> TRUE, v |-> 20], [known |-> FALSE, v |-> 0]>>

PoolThemes ==
    <<(<<"mate", "short">>), (<<"mateIn1">>), (<<"short", "mate">>),
      (<<"mateIn2", "long">>), (<<"mate">>), (<<"mateIn1", "mate">>),
      (<<"mateIn2">>), (<<"mate", "long">>)>>

Cyc(list, i) == list[((i - 1) % Len(list)) + 1]

Row(i) ==
    [puzzle_id |-> i,
     fen |-> Cyc(PoolFens, i),
     moves |-> Cyc(PoolMoves, i),
     rating |-> Cyc(PoolRatings, i),
     quality_score |-> Cyc(PoolQualities, i),
     popularity |-> Cyc(PoolPopularity, i),
     theme_list |-> Cyc(PoolThemes, i)]

Pool == 1 .. PoolSize

\* SQL: themes LIKE '%theme%' is a substring test on the stored theme text
IsSubstring(a, b) == a = b \/ (a = "mate" /\ b \in {"mateIn1", "mateIn2"})

LikeTheme(row, theme) == \E k \in DOMAIN row.theme_list : IsSubstring(theme, row.theme_list[k])

\* ORDER BY quality_score DESC, rating DESC
RowBefore(a, b) ==
    \/ a.quality_score > b.quality_score
    \/ a.quality_score = b.quality_score /\ a.rating > b.rating

RECURSIVE OrderRows(_)
OrderRows(S) ==
    IF S = {} THEN <<>>
    ELSE LET first == CHOOSE a \in S : \A b \in S \ {a} : RowBefore(a, b)
         IN <<first>> \o OrderRows(S \ {first})

\* PuzzleDatabase.search_puzzles(theme, min_rating, max_rating, min_quality, limit)
search_puzzles(rows, theme, min_rating, max_rating, min_quality, limit) ==
    LET match == {Row(i) : i \in {j \in rows :
                     /\ Row(j).quality_score >= min_quality
                     /\ LikeTheme(Row(j), theme)
                     /\ (min_rating # 0 => Row(j).rating >= min_rating)
                     /\ (max_rating # 0 => Row(j).rating <= max_rating)}}
    IN Take(OrderRows(match), limit)

\* ExampleSelector._db_result_to_puzzle_example with PuzzleExample.__post_init__
\* (primary_theme is the first theme when the row gives none)
PuzzleExample(row) ==
    [id |-> row.puzzle_id,
     fen |-> row.fen,
     solution_moves |-> IF row.moves # "" THEN split(row.moves) ELSE <<>>,
     rating |-> row.rating,
     quality_score |-> row.quality_score,
     popularity |-> row.popularity,
     themes |-> row.theme_list,
     primary_theme |-> IF Len(row.theme_list) > 0 THEN row.theme_list[1] ELSE "None"]

(***************************************************************************)
(* ExampleSelector (example_selector.py).                                  *)
(***************************************************************************)
\* _calculate_selection_score, times 30000: its four components
quality_component(puzzle) ==
    (puzzle.quality_score * selection_weights.quality_score) \div 100

rating_component(puzzle, cfg) ==
    LET range == difficulty_ranges[cfg.difficulty]
        rating_distance == Abs(puzzle.rating - range.optimal)
        max_distance == Max(range.optimal - range.min, range.max - range.optimal)
    IN selection_weights.rating_appropriateness
       - (selection_weights.rating_appropriateness * rating_distance) \div max_distance

theme_component(puzzle, cfg) ==
    IF cfg.theme \in Range(puzzle.themes) \/ puzzle.primary_theme = cfg.theme
    THEN selection_weights.theme_relevance
    ELSE selection_weights.theme_relevance \div 2

\* "if puzzle.popularity:" is false for None and for 0
diversity_bonus(puzzle) ==
    IF puzzle.popularity.known /\ puzzle.popularity.v # 0
    THEN selection_weights.diversity_bonus
         - (selection_weights.diversity_bonus * Min(puzzle.popularity.v, 1000)) \div 1000
    ELSE 0

calculate_selection_score(puzzle, cfg) ==
    quality_component(puzzle) + rating_component(puzzle, cfg)
        + theme_component(puzzle, cfg) + diversity_bonus(puzzle)

\* list.sort(key=score, reverse=True): stable, highest score first
RECURSIVE SortByScoreDesc(_, _)
SortByScoreDesc(s, cfg) ==
    IF s = <<>> THEN <<>>
    ELSE LET best == CHOOSE i \in DOMAIN s :
                 /\ \A j \in DOMAIN s :
                        calculate_selection_score(s[j], cfg) <= calculate_selection_score(s[i], cfg)
                 /\ \A j \in 1 .. (i - 1) :
                        calculate_selection_score(s[j], cfg) < calculate_selection_score(s[i], cfg)
         IN <<s[best]>> \o SortByScoreDesc(RemoveAt(s, best), cfg)

\* sorted(key=rating): stable, lowest rating first
RECURSIVE SortByRating(_)
SortByRating(s) ==
    IF s = <<>> THEN <<>>
    ELSE LET least == CHOOSE i \in DOMAIN s :
                 /\ \A j \in DOMAIN s : s[i].rating <= s[j].rating
                 /\ \A j \in 1 .. (i - 1) : s[i].rating < s[j].rating
         IN <<s[least]>> \o SortByRating(RemoveAt(s, least))

\* the first candidates of the repository order
select_first_examples(cands, cfg) ==
    IF Len(cands) <= cfg.example_count THEN cands
    ELSE Take(cands, cfg.example_count)

\* _select_best_examples
select_best_examples(cands, cfg) ==
    IF Len(cands) <= cfg.example_count THEN cands
    ELSE Take(SortByScoreDesc(cands, cfg), cfg.example_count)

\* the bucket of one candidate: rating_position = (rating - min) / span compared
\* with the literals 0.33 and 0.67 (exactly: 100 * (rating - min) against 33 * span)
BucketOf(puzzle, range) ==
    LET rating_span == range.max - range.min
        offset == puzzle.rating - range.min
    IN IF 100 * offset < 33 * rating_span THEN "easy"
       ELSE IF 100 * offset < 67 * rating_span THEN "medium"
       ELSE "hard"

BucketNames == <<"easy", "medium", "hard">>

\* bucket_count with the quotient and the remainder exchanged
bucket_count_swapped(n, i) == (n % 3) + (IF i < n \div 3 THEN 1 ELSE 0)

\* bucket_count without the remainder
bucket_count_without_remainder(n, i) == n \div 3

\* examples_per_bucket + (1 if i < remainder else 0), i = 0, 1, 2
bucket_count(n, i) == (n \div 3) + (IF i < n % 3 THEN 1 ELSE 0)

\* the best bucket_count candidates of bucket i (0-based)
bucket_selected(cands, cfg, range, i) ==
    LET bucket_candidates ==
            SelectSeq(cands, LAMBDA c : BucketOf(c, range) = BucketNames[i + 1])
    IN Take(SortByScoreDesc(bucket_candidates, cfg), bucket_count(cfg.example_count, i))

\* the fill step drawing from all candidates, selected ones included
fill_without_exclusion(cands, picked, cfg) ==
    IF Len(picked) < cfg.example_count
    THEN picked \o Take(SortByScoreDesc(cands, cfg), cfg.example_count - Len(picked))
    ELSE picked

\* the fill step left out
fill_nothing(cands, picked, cfg) == picked

\* the fill step: the best of the candidates not selected yet
fill_remaining(cands, picked, cfg) ==
    IF Len(picked) < cfg.example_count
    THEN LET remaining_candidates == SelectSeq(cands, LAMBDA c : c \notin Range(picked))
             needed == cfg.example_count - Len(picked)
         IN picked \o Take(SortByScoreDesc(remaining_candidates, cfg), needed)
    ELSE picked

\* the selections of the three buckets, in bucket order
bucket_picks(cands, cfg, range) ==
    bucket_selected(cands, cfg, range, 0) \o bucket_selected(cands, cfg, range, 1)
        \o bucket_selected(cands, cfg, range, 2)

\* _select_progressive_examples
select_progressive_examples(cands, cfg, range) ==
    IF Len(cands) <= cfg.example_count THEN SortByRating(cands)
    ELSE Take(SortByRating(fill_remaining(cands, bucket_picks(cands, cfg, range), cfg)),
              cfg.example_count)

\* select_examples: the rating bounds of the repository query
resolved_min(cfg) ==
    IF cfg.min_rating # 0 THEN cfg.min_rating ELSE difficulty_ranges[cfg.difficulty].min

resolved_max(cfg) ==
    IF cfg.max_rating # 0 THEN cfg.max_rating ELSE difficulty_ranges[cfg.difficulty].max

search_limit(cfg) == Max(cfg.example_count * 3, 50)

\* the candidates select_examples converts from the repository result
puzzle_examples(rows, cfg) ==
    LET found == search_puzzles(rows, cfg.theme, resolved_min(cfg), resolved_max(cfg),
                                cfg.min_quality_threshold, search_limit(cfg))
    IN [i \in DOMAIN found |-> PuzzleExample(found[i])]

\* select_examples: [] when nothing is found; the log line after the selection
\* divides by len(selected), so an empty selection ends in the except branch,
\* which returns [] as well
select_examples(rows, cfg) ==
    LET cands == puzzle_examples(rows, cfg)
    IN IF cands = <<>> THEN <<>>
       ELSE IF cfg.enable_progressive_difficulty
       THEN select_progressive_examples(cands, cfg, difficulty_ranges[cfg.difficulty])
       ELSE select_best_examples(cands, cfg)

(***************************************************************************)
(* State machine of the selector: a select_examples call on the           *)
(* repository chosen at start.  The selector keeps no state between calls, *)
(* so a behaviour holds one call.                                          *)
(***************************************************************************)
NoConfig == [theme |-> "None"]

\* models.py: LessonGenerationConfig.example_count default
DefaultExampleCount == 5

RequestThemes == {"mate"}

RequestDifficulties == {"intermediate", "advanced"}

RequestThresholds == {60, 70}

\* explicit rating bounds of a request; 0 is "not given"
RequestMinRatings == {0, 1300}

RequestMaxRatings == {0, 1700}

SelectorIdle ==
    /\ db = {}
    /\ config = NoConfig
    /\ candidates = <<>>
    /\ selected = <<>>

SelectExamples(cfg) ==
    /\ config = NoConfig
    /\ config' = cfg
    /\ candidates' = puzzle_examples(db, cfg)
    /\ selected' = select_examples(db, cfg)
    /\ UNCHANGED db

\* (quality_weight, rating_weight, diversity_weight) of a request: the
\* defaults, and quality alone
RequestWeights == {<<12000, 9000, 9000>>, <<30000, 0, 0>>}

with_weights(cfg, w) ==
    [cfg EXCEPT !.quality_weight = w[1], !.rating_weight = w[2], !.diversity_weight = w[3]]

SelectorRequest ==
    \E theme \in RequestThemes, difficulty \in RequestDifficulties,
       n \in 0 .. MaxCount, threshold \in RequestThresholds,
       progressive \in BOOLEAN,
       lo \in RequestMinRatings, hi \in RequestMaxRatings,
       w \in RequestWeights :
        SelectExamples(with_weights(MakeConfig(theme, difficulty, n, DefaultExampleCount,
                                               threshold, progressive, lo, hi), w))

(***************************************************************************)
(* PositionCache (cache.py).                                               *)
(*                                                                         *)
(* Optional integers (score, mate) are records [some, v]; an info dict is  *)
(* the set of its items [k, t, v, n]: key, Python type, text and, for the  *)
(* engine's score object, its number.  time_limit is held in tenths of a   *)
(* second.  The md5 digest of the key text is taken to be collision-free:  *)
(* the key of the map is the key text itself.                              *)
(***************************************************************************)
None == [some |-> FALSE, v |-> 0]

Some(x) == [some |-> TRUE, v |-> x]

\* PositionCache.__init__: max_age_hours * 3600, in the model's time unit
max_age_seconds == 2

MaxTime == 3

MaxCalls == 3

EmptyMap == [k \in {} |-> k]

\* f"{time_limit}" of a float held in tenths
FormatFloat(x) == ToString(x \div 10) \o "." \o ToString(x % 10)

\* a key text that leaves the line count out
generate_key_without_multipv(fen, time_limit, min_depth, multipv) ==
    fen \o "|" \o FormatFloat(time_limit) \o "|" \o ToString(min_depth)

\* _generate_key: the text f"{fen}|{time_limit}|{min_depth}|{multipv}"
generate_key(fen, time_limit, min_depth, multipv) ==
    fen \o "|" \o FormatFloat(time_limit) \o "|" \o ToString(min_depth)
        \o "|" \o ToString(multipv)

JsonTypes == {"int", "float", "str", "list", "bool"}

\* set: the serializable copy of info
serializable_info(info) ==
    {IF e.k = "pv" THEN [k |-> "pv", t |-> "list", v |-> e.v, n |-> 0]
     ELSE IF e.t \in JsonTypes THEN e
     ELSE [k |-> e.k, t |-> "str", v |-> e.v, n |-> 0] :
        e \in {x \in info : x.k # "score"}}

NotFound == [found |-> FALSE, score |-> None, mate |-> None, info |-> {}]

Found(score, mate, info) == [found |-> TRUE, score |-> score, mate |-> mate, info |-> info]

MapPut(m, key, value) == [k \in DOMAIN m \cup {key} |-> IF k = key THEN value ELSE m[k]]

MapRemove(m, keys) == [k \in DOMAIN m \ keys |-> m[k]]

\* get with the age test reversed
cache_get_age_reversed(c, fen, time_limit, min_depth, multipv, time) ==
    LET key == generate_key(fen, time_limit, min_depth, multipv)
    IN IF key \in DOMAIN c
       THEN IF time - c[key].timestamp >= max_age_seconds
            THEN [cache |-> c, hit |-> TRUE,
                  value |-> Found(c[key].score, c[key].mate, c[key].info)]
            ELSE [cache |-> MapRemove(c, {key}), hit |-> FALSE, value |-> NotFound]
       ELSE [cache |-> c, hit |-> FALSE, value |-> NotFound]

\* get that reports an expired entry absent but leaves it in the map
cache_get_keeps_expired(c, fen, time_limit, min_depth, multipv, time) ==
    LET key == generate_key(fen, time_limit, min_depth, multipv)
    IN IF key \in DOMAIN c /\ time - c[key].timestamp < max_age_seconds
       THEN [cache |-> c, hit |-> TRUE,
             value |-> Found(c[key].score, c[key].mate, c[key].info)]
       ELSE [cache |-> c, hit |-> FALSE, value |-> NotFound]

\* get: the map afterwards, the value returned and the counter it increments
cache_get(c, fen, time_limit, min_depth, multipv, time) ==
    LET key == generate_key(fen, time_limit, min_depth, multipv)
    IN IF key \in DOMAIN c
       THEN IF time - c[key].timestamp < max_age_seconds
            THEN [cache |-> c, hit |-> TRUE,
                  value |-> Found(c[key].score, c[key].mate, c[key].info)]
            ELSE [cache |-> MapRemove(c, {key}), hit |-> FALSE, value |-> NotFound]
       ELSE [cache |-> c, hit |-> FALSE, value |-> NotFound]

\* set: the map afterwards
cache_set(c, fen, time_limit, min_depth, multipv, score, mate, info, time) ==
    MapPut(c, generate_key(fen, time_limit, min_depth, multipv),
           [fen |-> fen, score |-> score, mate |-> mate,
            info |-> serializable_info(info), timestamp |-> time])

\* the cache file: format says what its bytes are ("map" is the JSON object of
\* entries _save_cache writes, held in data)
NoFile == [exists |-> FALSE, format |-> "map", data |-> EmptyMap]

\* _save_cache: a full rewrite of the file with the map
save_cache(c) == [exists |-> TRUE, format |-> "map", data |-> c]

\* set: "if len(self._cache) % 10 == 0: self._save_cache()"
save_after_set(c, f) == IF Cardinality(DOMAIN c) % 10 = 0 THEN save_cache(c) ELSE f

\* _load_cache: json.load raises JSONDecodeError for bytes that are no JSON and
\* open/read raise OSError for a file that cannot be read, both caught; bytes
\* that are no text raise UnicodeDecodeError, a JSON value that is no object
\* raises AttributeError at .items() and an entry that is no object raises it
\* at .get(), none of them caught.  What json.dump wrote json.load gives back
\* (the entries hold numbers, null, strings and lists of strings only).
load_cache(f, time) ==
    IF ~f.exists THEN [raised |-> FALSE, cache |-> EmptyMap]
    ELSE IF f.format \in {"not json", "unreadable"} THEN [raised |-> FALSE, cache |-> EmptyMap]
    ELSE IF f.format \in {"not text", "json list", "entry not an object"}
    THEN [raised |-> TRUE, cache |-> EmptyMap]
    ELSE [raised |-> FALSE,
          cache |-> [k \in {x \in DOMAIN f.data : time - f.data[x].timestamp < max_age_seconds}
                        |-> f.data[k]]]

\* the keys of the entries older than max-age, those of that very age left
expired_keys_strictly_older(c, time) ==
    {k \in DOMAIN c : time - c[k].timestamp > max_age_seconds}

\* cleanup_expired: the keys it deletes
expired_keys(c, time) == {k \in DOMAIN c : time - c[k].timestamp >= max_age_seconds}

\* get_stats
get_stats(c, h, m) == [hits |-> h, misses |-> m, cached_positions |-> Cardinality(DOMAIN c)]

(***************************************************************************)
(* State machine of the cache: get, set, cleanup_expired and clear called  *)
(* on one PositionCache as time passes.                                    *)
(***************************************************************************)
\* the four-tuples in use: a base tuple and the tuples one parameter away
BaseTuple == <<"fenA", 10, 10, 1>>

Fens == {"fenA", "fenB"}

TimeLimits == {10, 30}

Depths == {10, 25}

MultiPVs == {1, 3}

Differences(a, b) == Cardinality({i \in 1 .. 4 : a[i] # b[i]})

CacheTuples ==
    {tp \in Fens \X TimeLimits \X Depths \X MultiPVs : Differences(tp, BaseTuple) <= 1}

\* info dicts as python-chess gives them
InfoQuiet ==
    {[k |-> "score", t |-> "PovScore", v |-> <<"cp">>, n |-> 35],
     [k |-> "pv", t |-> "moves", v |-> <<"e2e4", "e7e5">>, n |-> 0],
     [k |-> "depth", t |-> "int", v |-> <<"20">>, n |-> 0]}

InfoMate ==
    {[k |-> "score", t |-> "PovScore", v |-> <<"mate">>, n |-> 1],
     [k |-> "pv", t |-> "moves", v |-> <<"d1h5">>, n |-> 0],
     [k |-> "currmove", t |-> "Move", v |-> <<"d1h5">>, n |-> 0]}

\* (score, mate, info) triples given to set
SetValues ==
    {[score |-> Some(35), mate |-> None, info |-> InfoQuiet],
     [score |-> Some(9999), mate |-> Some(1), info |-> InfoMate]}

NoPrior == [known |-> FALSE, score |-> None, mate |-> None, info |-> {}, age |-> 0]

\* what was last given to set for this four-tuple, and how long ago
PriorOf(tp) ==
    IF tp \in DOMAIN stored
    THEN [known |-> TRUE, score |-> stored[tp].score, mate |-> stored[tp].mate,
          info |-> stored[tp].info, age |-> now - stored[tp].timestamp]
    ELSE NoPrior

\* a call as its caller sees it, with the state it was made in
Call(op, tp, value, engine_calls, removed) ==
    [op |-> op, args |-> tp, value |-> value, engine_calls |-> engine_calls,
     removed |-> removed, prior |-> PriorOf(tp),
     hits_before |-> hits, misses_before |-> misses,
     cached_before |-> Cardinality(DOMAIN cache),
     present_before |-> generate_key(tp[1], tp[2], tp[3], tp[4]) \in DOMAIN cache]

NoCall == [op |-> "none", args |-> BaseTuple, value |-> NotFound, engine_calls |-> 0,
           removed |-> 0, prior |-> NoPrior, hits_before |-> 0, misses_before |-> 0,
           cached_before |-> 0, present_before |-> FALSE]

CacheIdle ==
    /\ cache = EmptyMap
    /\ hits = 0
    /\ misses = 0
    /\ now = 0
    /\ file = NoFile
    /\ ret = NoCall
    /\ stored = EmptyMap
    /\ calls = 0

Get(tp) ==
    LET r == cache_get(cache, tp[1], tp[2], tp[3], tp[4], now)
    IN /\ calls < MaxCalls
       /\ cache' = r.cache
       /\ hits' = IF r.hit THEN hits + 1 ELSE hits
       /\ misses' = IF r.hit THEN misses ELSE misses + 1
       /\ ret' = Call("get", tp, r.value, 0, 0)
       /\ calls' = calls + 1
       /\ UNCHANGED <<now, file, stored>>

Set(tp, val) ==
    /\ calls < MaxCalls
    /\ cache' = cache_set(cache, tp[1], tp[2], tp[3], tp[4], val.score, val.mate, val.info, now)
    /\ file' = save_after_set(cache', file)
    /\ stored' = MapPut(stored, tp, [score |-> val.score, mate |-> val.mate,
                                     info |-> val.info, timestamp |-> now])
    /\ ret' = Call("set", tp, NotFound, 0, 0)
    /\ calls' = calls + 1
    /\ UNCHANGED <<hits, misses, now>>

CleanupExpired ==
    LET gone == expired_keys(cache, now)
        removed_count == Cardinality(DOMAIN cache) - Cardinality(DOMAIN MapRemove(cache, gone))
    IN /\ calls < MaxCalls
       /\ cache' = MapRemove(cache, gone)
       /\ file' = IF removed_count > 0 THEN save_cache(cache') ELSE file
       /\ ret' = Call("cleanup_expired", BaseTuple, NotFound, 0, removed_count)
       /\ calls' = calls + 1
       /\ UNCHANGED <<hits, misses, now, stored>>

Clear ==
    /\ calls < MaxCalls
    /\ cache' = EmptyMap
    /\ hits' = 0
    /\ misses' = 0
    /\ file' = NoFile
    /\ stored' = EmptyMap
    /\ ret' = Call("clear", BaseTuple, NotFound, 0, 0)
    /\ calls' = calls + 1
    /\ UNCHANGED now

Tick ==
    /\ now < MaxTime
    /\ now' = now + 1
    /\ UNCHANGED <<cache, hits, misses, file, ret, stored, calls>>

\* no request made yet through the Lichess client
NoLimiter == [made |-> FALSE]

\* the callers of the module's position_cache in one process: lesson
\* generation and ad hoc analysis
Callers == {1, 2}

\* a caller outside every method of the cache
IdleCaller ==
    [pc |-> "idle", op |-> "none", key |-> generate_key("fenA", 10, 10, 1),
     current_time |-> 0, initial_count |-> 0, size |-> 0, seen |-> {}, expired |-> {},
     raised |-> "none", lost |-> FALSE, value |-> NotFound, age |-> 0, removed |-> 0]

\* no call made yet
NoRequest == [op |-> "none", repository_ok |-> TRUE]

\* ChessLessonEngine.__init__: the usage statistics
NoStats == [lessons_generated |-> 0, examples_used |-> 0, themes_covered |-> {}]

LessonIdle ==
    /\ lesson = [built |-> FALSE]
    /\ request = NoRequest
    /\ stats = NoStats
    /\ estimate = [made |-> FALSE]
    /\ unflushed = 0
    /\ threads = [t \in Callers |-> IdleCaller]
    /\ limiter = NoLimiter

InitSelector ==
    /\ db \in SUBSET Pool
    /\ config = NoConfig
    /\ candidates = <<>>
    /\ selected = <<>>
    /\ CacheIdle
    /\ LessonIdle

NextSelector == SelectorRequest /\ UNCHANGED <<cacheVars, lessonVars, estimateVars, otherVars>>

SpecSelector == InitSelector /\ [][NextSelector]_vars

(***************************************************************************)
(* State machine of select_from_position: one call on the repository       *)
(* chosen at start.                                                        *)
(***************************************************************************)
\* models.py: LessonGenerationConfig.num_examples default
DefaultNumExamples == 5

\* LessonGenerationConfig(theme=theme, difficulty=difficulty,
\* example_count=count, min_quality_threshold=0.6)
position_config(theme, count, difficulty) ==
    MakeConfig(theme, difficulty, DefaultNumExamples, count, 60, TRUE, 0, 0)

\* select_from_position(fen, theme, count, difficulty); the position is not
\* used by the selection
SelectFromPosition(fen, theme, count, difficulty) ==
    /\ config = NoConfig
    /\ config' = position_config(theme, count, difficulty)
    /\ candidates' = puzzle_examples(db, config')
    /\ selected' = select_examples(db, config')
    /\ request' = [op |-> "select_from_position", repository_ok |-> TRUE, count |-> count]
    /\ UNCHANGED <<db, lesson, stats>>

NextPosition ==
    /\ \E fen \in {PoolFens[1]}, theme \in RequestThemes, count \in 0 .. MaxCount + 2,
          difficulty \in RequestDifficulties :
           SelectFromPosition(fen, theme, count, difficulty)
    /\ UNCHANGED <<cacheVars, estimateVars, otherVars>>

SpecPosition == InitSelector /\ [][NextPosition]_vars

InitCache == SelectorIdle /\ CacheIdle /\ LessonIdle

NextCache ==
    /\ \/ \E tp \in CacheTuples : Get(tp)
       \/ \E tp \in CacheTuples, val \in SetValues : Set(tp, val)
       \/ CleanupExpired
       \/ Clear
       \/ Tick
    /\ UNCHANGED <<selectorVars, lessonVars, estimateVars, otherVars>>

SpecCache == InitCache /\ [][NextCache]_vars

(***************************************************************************)
(* State machine of the constructor: PositionCache() over the cache file   *)
(* an earlier process left, at any time after that file was written.       *)
(***************************************************************************)
LoadTuples == {BaseTuple, <<"fenB", 10, 10, 1>>}

\* the maps an earlier process can have written: each four-tuple absent or
\* set at some time
WrittenMaps ==
    {[k \in {generate_key(tp[1], tp[2], tp[3], tp[4]) : tp \in S} |->
         LET tp == CHOOSE x \in S : generate_key(x[1], x[2], x[3], x[4]) = k
         IN [fen |-> tp[1], score |-> Some(35), mate |-> None,
             info |-> serializable_info(InfoQuiet), timestamp |-> at[tp]]] :
        S \in SUBSET LoadTuples, at \in [LoadTuples -> 0 .. MaxTime]}

LoadFiles ==
    {NoFile} \cup {save_cache(c) : c \in WrittenMaps}
    \cup {[exists |-> TRUE, format |-> fmt, data |-> EmptyMap] :
             fmt \in {"not json", "unreadable", "not text", "json list", "entry not an object"}}

InitLoad ==
    /\ SelectorIdle /\ LessonIdle
    /\ cache = EmptyMap /\ hits = 0 /\ misses = 0 /\ ret = NoCall
    /\ stored = EmptyMap /\ calls = 0
    /\ file \in LoadFiles
    /\ now \in 0 .. MaxTime
    /\ \A k \in DOMAIN file.data : file.data[k].timestamp <= now

\* PositionCache.__init__
Construct ==
    LET r == load_cache(file, now)
    IN /\ calls = 0
       /\ cache' = r.cache
       /\ hits' = 0
       /\ misses' = 0
       /\ ret' = Call(IF r.raised THEN "construct_raised" ELSE "construct", BaseTuple, NotFound,
                      0, Cardinality(DOMAIN file.data) - Cardinality(DOMAIN r.cache))
       /\ calls' = 1
       /\ UNCHANGED <<now, file, stored>>

NextLoad == Construct /\ UNCHANGED <<selectorVars, lessonVars, estimateVars, otherVars>>

SpecLoad == InitLoad /\ [][NextLoad]_vars

(***************************************************************************)
(* State machine of the periodic save: set() called again and again, each  *)
(* time with a four-tuple not cached yet or with the first one once more.  *)
(***************************************************************************)
MaxSets == 12

\* the k-th four-tuple given to set
FlushTuple(k) == <<"fen" \o ToString(k), 10, 10, 1>>

SetCounted(tp) ==
    /\ calls < MaxSets
    /\ cache' = cache_set(cache, tp[1], tp[2], tp[3], tp[4], Some(35), None, InfoQuiet, now)
    /\ file' = save_after_set(cache', file)
    /\ unflushed' = IF save_after_set(cache', NoFile).exists THEN 0 ELSE unflushed + 1
    /\ stored' = MapPut(stored, tp, [score |-> Some(35), mate |-> None,
                                     info |-> InfoQuiet, timestamp |-> now])
    /\ ret' = Call("set", tp, NotFound, 0, 0)
    /\ calls' = calls + 1
    /\ UNCHANGED <<hits, misses, now>>

NextFlush ==
    /\ \E tp \in {FlushTuple(1), FlushTuple(Cardinality(DOMAIN cache) + 1)} : SetCounted(tp)
    /\ UNCHANGED <<selectorVars, lessonVars, estimateVars, threadVars, limiterVars>>

SpecFlush == InitCache /\ [][NextFlush]_vars

(***************************************************************************)
(* Properties of the selector.                                             *)
(***************************************************************************)
Requested == config # NoConfig

\* the progressive strategy ran with more candidates than requested
ProgressiveRun ==
    /\ Requested
    /\ config.enable_progressive_difficulty
    /\ Len(candidates) > config.example_count

TierRange == difficulty_ranges[config.difficulty]

\* C1: select_examples, progressive or flat, returns at most example_count
\* items and no two of them have the same id.
C1_AtMostRequestedNoDuplicateIds ==
    Requested =>
        /\ Len(selected) <= config.example_count
        /\ \A i, j \in DOMAIN selected : i # j => selected[i].id # selected[j].id

\* a progressive run in which the buckets gave fewer than requested and the
\* fill step completed the selection
C1_Witness ==
    /\ ProgressiveRun
    /\ config.example_count >= 2
    /\ Len(bucket_picks(candidates, config, TierRange)) < config.example_count
    /\ Len(selected) = config.example_count

\* C2: in progressive mode with more candidates than the requested n >= 1,
\* the result has exactly n items, in non-decreasing rating order.
C2_ProgressiveExactlyRequestedSorted ==
    (ProgressiveRun /\ config.example_count >= 1) =>
        /\ Len(selected) = config.example_count
        /\ \A i \in 1 .. (Len(selected) - 1) : selected[i].rating <= selected[i + 1].rating

\* a shortfall of two or more filled from the remaining candidates, of which
\* one bucket is empty
C2_Witness ==
    /\ ProgressiveRun
    /\ config.example_count >= 3
    /\ Len(bucket_picks(candidates, config, TierRange)) + 2 <= config.example_count
    /\ \E b \in Range(BucketNames) : \A i \in DOMAIN candidates :
           BucketOf(candidates[i], TierRange) # b
    /\ Len(selected) = config.example_count

ThirdOf(puzzle, lo, hi) ==
    IF 3 * (puzzle.rating - lo) < hi - lo THEN "easy"
    ELSE IF 3 * (puzzle.rating - lo) < 2 * (hi - lo) THEN "medium"
    ELSE "hard"

\* C4: the bucket of every candidate of a progressive run is its third of the
\* request's resolved [min, max] rating span.
C4_BucketsAreThirdsOfResolvedSpan ==
    ProgressiveRun =>
        \A i \in DOMAIN candidates :
            BucketOf(candidates[i], TierRange)
                = ThirdOf(candidates[i], resolved_min(config), resolved_max(config))

\* C4, on requests that give no explicit bounds
C4_BucketsAreThirdsOfTierSpan ==
    (ProgressiveRun /\ resolved_min(config) = TierRange.min /\ resolved_max(config) = TierRange.max) =>
        \A i \in DOMAIN candidates :
            BucketOf(candidates[i], TierRange)
                = ThirdOf(candidates[i], TierRange.min, TierRange.max)

(***************************************************************************)
(* evaluate_position (chess_utils.py) over the global position_cache.      *)
(***************************************************************************)
\* config.py: stockfish.time_limit 3.0 (in tenths), min_depth, multipv
default_time_limit == 30

default_min_depth == 25

default_multipv == 3

\* "x or default": None and 0 both take the default; None is written 0
OrDefault(x, default) == IF x = 0 THEN default ELSE x

\* the score object of an info dict
ScoreObject(info) == CHOOSE e \in info : e.k = "score"

is_mate(info) == ScoreObject(info).v = <<"mate">>

\* score.white().mate()
white_mate(info) == IF is_mate(info) THEN Some(ScoreObject(info).n) ELSE None

\* score.white().score(mate_score=10000)
white_score(info) ==
    LET n == ScoreObject(info).n
    IN IF ~is_mate(info) THEN Some(n)
       ELSE IF n > 0 THEN Some(10000 - n)
       ELSE Some(-10000 - n)

\* the line evaluate_position reports: the first line of the shortest mate
\* when a line is a mate, the first line otherwise
best_line(lines) ==
    LET mates == {i \in DOMAIN lines : is_mate(lines[i])}
    IN IF mates # {}
       THEN lines[CHOOSE i \in mates :
                /\ \A j \in mates : Abs(ScoreObject(lines[i]).n) <= Abs(ScoreObject(lines[j]).n)
                /\ \A j \in mates : j < i => Abs(ScoreObject(lines[i]).n) < Abs(ScoreObject(lines[j]).n)]
       ELSE lines[1]

\* python-chess: the positions the model knows.  legal_moves(fen) lists, move
\* by move, the position board.fen() gives after board.push(move); fenA has
\* MaxMoves legal moves, fenB one, the checkmate and the stalemate none.
MaxMoves == 4

legal_moves(fen) ==
    CASE fen = "fenA" -> [i \in 1 .. MaxMoves |-> "fenA." \o ToString(i)]
      [] fen = "fenB" -> <<"fenB.1">>
      [] OTHER -> <<>>

\* a board that never reports checkmate
is_checkmate_never(fen) == FALSE

is_checkmate(fen) == fen = "fenMate"

BoardFens == {"fenA", "fenB", "fenMate", "fenStalemate"}

ReplyFens == UNION {Range(legal_moves(fen)) : fen \in BoardFens}

\* the texts chess.Board accepts
ValidFens == BoardFens \cup ReplyFens

\* evaluate_position that never stores the engine's result
evaluate_position_without_set(c, fen, time_limit, min_depth, multipv, engine, time) ==
    LET t == OrDefault(time_limit, default_time_limit)
        d == OrDefault(min_depth, default_min_depth)
        m == OrDefault(multipv, default_multipv)
        looked == cache_get(c, fen, t, d, m, time)
        info == best_line(engine.lines)
    IN IF looked.hit
       THEN [cache |-> looked.cache, hit |-> TRUE, raised |-> FALSE, engine_calls |-> 0,
             stored |-> FALSE, value |-> looked.value]
       ELSE IF engine.status = "unavailable" \/ fen \notin ValidFens
       THEN [cache |-> looked.cache, hit |-> FALSE, raised |-> TRUE, engine_calls |-> 0,
             stored |-> FALSE, value |-> NotFound]
       ELSE IF engine.status = "failed"
       THEN [cache |-> looked.cache, hit |-> FALSE, raised |-> TRUE, engine_calls |-> 1,
             stored |-> FALSE, value |-> NotFound]
       ELSE [cache |-> looked.cache,
             hit |-> FALSE, raised |-> FALSE, engine_calls |-> 1, stored |-> FALSE,
             value |-> Found(white_score(info), white_mate(info), info)]

\* evaluate_position: the cache afterwards, whether the lookup hit, whether the
\* call raised, how many times the engine was asked and what was returned
\* an evaluation that caches an empty result when the engine fails
evaluate_position_caching_failure(c, fen, time_limit, min_depth, multipv, engine, time) ==
    LET t == OrDefault(time_limit, default_time_limit)
        d == OrDefault(min_depth, default_min_depth)
        m == OrDefault(multipv, default_multipv)
        looked == cache_get(c, fen, t, d, m, time)
        info == best_line(engine.lines)
    IN IF looked.hit
       THEN [cache |-> looked.cache, hit |-> TRUE, raised |-> FALSE, engine_calls |-> 0,
             stored |-> FALSE, value |-> looked.value]
       ELSE IF engine.status = "unavailable" \/ fen \notin ValidFens
       THEN [cache |-> looked.cache, hit |-> FALSE, raised |-> TRUE, engine_calls |-> 0,
             stored |-> FALSE, value |-> NotFound]
       ELSE IF engine.status = "failed"
       THEN [cache |-> cache_set(looked.cache, fen, t, d, m, None, None, {}, time),
             hit |-> FALSE, raised |-> TRUE, engine_calls |-> 1,
             stored |-> FALSE, value |-> NotFound]
       ELSE [cache |-> cache_set(looked.cache, fen, t, d, m, white_score(info),
                                 white_mate(info), info, time),
             hit |-> FALSE, raised |-> FALSE, engine_calls |-> 1, stored |-> TRUE,
             value |-> Found(white_score(info), white_mate(info), info)]

evaluate_position(c, fen, time_limit, min_depth, multipv, engine, time) ==
    LET t == OrDefault(time_limit, default_time_limit)
        d == OrDefault(min_depth, default_min_depth)
        m == OrDefault(multipv, default_multipv)
        looked == cache_get(c, fen, t, d, m, time)
        info == best_line(engine.lines)
    IN IF looked.hit
       THEN [cache |-> looked.cache, hit |-> TRUE, raised |-> FALSE, engine_calls |-> 0,
             stored |-> FALSE, value |-> looked.value]
       ELSE IF engine.status = "unavailable" \/ fen \notin ValidFens
       THEN [cache |-> looked.cache, hit |-> FALSE, raised |-> TRUE, engine_calls |-> 0,
             stored |-> FALSE, value |-> NotFound]
       ELSE IF engine.status = "failed"
       THEN [cache |-> looked.cache, hit |-> FALSE, raised |-> TRUE, engine_calls |-> 1,
             stored |-> FALSE, value |-> NotFound]
       ELSE [cache |-> cache_set(looked.cache, fen, t, d, m, white_score(info),
                                 white_mate(info), info, time),
             hit |-> FALSE, raised |-> FALSE, engine_calls |-> 1, stored |-> TRUE,
             value |-> Found(white_score(info), white_mate(info), info)]

(***************************************************************************)
(* State machine of evaluate_position: calls on the shared cache as time   *)
(* passes, the engine answering each call it receives in any of the ways   *)
(* below.  The time an analysis takes is not counted against max-age.      *)
(***************************************************************************)
InfoWinning ==
    {[k |-> "score", t |-> "PovScore", v |-> <<"cp">>, n |-> 1200],
     [k |-> "pv", t |-> "moves", v |-> <<"d1d8">>, n |-> 0],
     [k |-> "depth", t |-> "int", v |-> <<"25">>, n |-> 0]}

InfoMateInTwo ==
    {[k |-> "score", t |-> "PovScore", v |-> <<"mate">>, n |-> 2],
     [k |-> "pv", t |-> "moves", v |-> <<"d1d8", "e8d8", "a1a8">>, n |-> 0],
     [k |-> "depth", t |-> "int", v |-> <<"25">>, n |-> 0]}

EngineAnswers ==
    {[status |-> "ok", lines |-> <<InfoQuiet>>],
     [status |-> "ok", lines |-> <<InfoWinning, InfoMateInTwo, InfoMate>>],
     [status |-> "failed", lines |-> <<InfoQuiet>>],
     [status |-> "unavailable", lines |-> <<InfoQuiet>>]}

EvalFens == {"fenA", "not a fen"}

\* (time_limit, min_depth, multipv) as callers give them; 0 is "not given"
EvalBudgets == {<<0, 0, 0>>, <<30, 25, 3>>, <<10, 10, 1>>}

EvaluatePosition(fen, budget, engine) ==
    LET r == evaluate_position(cache, fen, budget[1], budget[2], budget[3], engine, now)
        tp == <<fen, OrDefault(budget[1], default_time_limit),
                OrDefault(budget[2], default_min_depth),
                OrDefault(budget[3], default_multipv)>>
    IN /\ calls < MaxCalls
       /\ cache' = r.cache
       /\ hits' = IF r.hit THEN hits + 1 ELSE hits
       /\ misses' = IF r.hit THEN misses ELSE misses + 1
       /\ file' = IF r.stored THEN save_after_set(r.cache, file) ELSE file
       /\ stored' = IF r.engine_calls > 0 /\ ~r.raised
                    THEN MapPut(stored, tp, [score |-> r.value.score, mate |-> r.value.mate,
                                             info |-> r.value.info, timestamp |-> now])
                    ELSE stored
       /\ ret' = Call(IF r.raised THEN "evaluate_raised" ELSE "evaluate", tp, r.value,
                      r.engine_calls, 0)
       /\ calls' = calls + 1
       /\ UNCHANGED now

NextEval ==
    /\ \/ \E fen \in EvalFens, budget \in EvalBudgets, engine \in EngineAnswers :
              EvaluatePosition(fen, budget, engine)
       \/ CleanupExpired
       \/ Tick
    /\ UNCHANGED <<selectorVars, lessonVars, estimateVars, otherVars>>

SpecEval == InitCache /\ [][NextEval]_vars

(***************************************************************************)
(* estimate_difficulty (chess_utils.py).                                   *)
(*                                                                         *)
(* The info argument is an info dict (the set of its items), a score       *)
(* object passed by itself, or anything else (None, a number, a tuple).    *)
(***************************************************************************)
InfoDict(items) == [shape |-> "dict", items |-> items]

ScoreOnly(items) ==
    [shape |-> "score_object", items |-> {e \in items : e.k = "score"}]

OtherShape == [shape |-> "other", items |-> {}]

\* isinstance(info, dict) and "score" in info
has_score_key(info) == info.shape = "dict" /\ \E e \in info.items : e.k = "score"

\* hasattr(info, 'is_mate')
has_is_mate(info) == info.shape = "score_object"

\* the fallback of an unexpected info format, and the last three tests of
\* estimate_difficulty
score_banding_without_mid_band(score) ==
    IF Abs(score) > 1000 THEN "beginner"
    ELSE IF 500 < Abs(score) /\ Abs(score) <= 1000 THEN "intermediate"
    ELSE "advanced"

score_banding(score) ==
    IF Abs(score) > 1000 THEN "beginner"
    ELSE IF 500 < Abs(score) /\ Abs(score) <= 1000 THEN "intermediate"
    ELSE IF 200 < Abs(score) /\ Abs(score) <= 500 THEN "intermediate"
    ELSE "advanced"

\* the label of a forced mate in mate_in
mate_label_by_score_only(score, mate_in) ==
    IF Abs(score) > 500 THEN "beginner" ELSE "intermediate"

mate_label(score, mate_in) ==
    IF Abs(mate_in) = 1
    THEN IF Abs(score) > 500 THEN "beginner" ELSE "intermediate"
    ELSE IF Abs(mate_in) = 2 THEN "intermediate"
    ELSE "advanced"

\* the label of the number of replies counted as winning
uniqueness_label(winning_moves) ==
    IF winning_moves = 1 THEN "advanced"
    ELSE IF winning_moves <= 3 THEN "intermediate"
    ELSE "beginner"

\* the evaluation of one reply at the default budget
probe_reply_at_default_budget(c, fen, engine, time) ==
    evaluate_position(c, fen, 0, 0, 0, engine, time)

\* evaluate_position(board.fen(), time_limit=1.0, min_depth=10, multipv=1)
probe_reply(c, fen, engine, time) ==
    evaluate_position(c, fen, 10, 10, 1, engine, time)

\* the cache, its counters and its file as a call finds them, with the
\* counters of the probe
ProbeStart(c, h, m, f, st) ==
    [cache |-> c, hits |-> h, misses |-> m, file |-> f, stored |-> st,
     evaluations |-> 0, engine_calls |-> 0, winning_moves |-> 0, raised |-> FALSE]

\* the loop over legal_moves from the i-th move on; answers[i] is what the
\* engine does if evaluate_position asks it about the i-th reply.  A raising
\* evaluate_position ends the loop (the except branch of the probe).
RECURSIVE probe_replies(_, _, _, _, _)
probe_replies(p, replies, answers, i, time) ==
    IF i > Len(replies) \/ p.raised THEN p
    ELSE LET r == probe_reply(p.cache, replies[i], answers[i], time)
             won == ~r.raised /\ r.value.score.some /\ r.value.score.v > 1000
         IN probe_replies(
                [cache |-> r.cache,
                 hits |-> IF r.hit THEN p.hits + 1 ELSE p.hits,
                 misses |-> IF r.hit THEN p.misses ELSE p.misses + 1,
                 file |-> IF r.stored THEN save_after_set(r.cache, p.file) ELSE p.file,
                 stored |-> IF r.stored
                            THEN MapPut(p.stored, <<replies[i], 10, 10, 1>>,
                                        [score |-> r.value.score, mate |-> r.value.mate,
                                         info |-> r.value.info, timestamp |-> time])
                            ELSE p.stored,
                 evaluations |-> p.evaluations + 1,
                 engine_calls |-> p.engine_calls + r.engine_calls,
                 winning_moves |-> IF won THEN p.winning_moves + 1 ELSE p.winning_moves,
                 raised |-> r.raised],
                replies, answers, i + 1, time)

Estimated(label, rule, p) == [raised |-> FALSE, label |-> label, rule |-> rule, probe |-> p]

\* estimate_difficulty(score, info, fen); fen "" is no position given.  p is
\* the cache state the call starts in; the result holds the label, the rule
\* that gave it and the cache state the call leaves.
estimate_difficulty(p, score, info, fen, answers, time) ==
    IF fen # "" /\ fen \notin ValidFens
    THEN [raised |-> TRUE, label |-> "none", rule |-> "invalid position", probe |-> p]
    ELSE IF fen # "" /\ is_checkmate(fen) THEN Estimated("beginner", "checkmate", p)
    ELSE IF ~has_score_key(info) /\ ~has_is_mate(info)
    THEN Estimated(score_banding(score), "fallback", p)
    ELSE IF is_mate(info.items)
    THEN Estimated(mate_label(score, white_mate(info.items).v), "mate", p)
    ELSE IF Abs(score) > 1000
    THEN IF fen = "" THEN Estimated("beginner", "decisive", p)
         ELSE LET q == probe_replies(p, legal_moves(fen), answers, 1, time)
              IN IF q.raised THEN Estimated("beginner", "probe failed", q)
                 ELSE Estimated(uniqueness_label(q.winning_moves), "probe", q)
    ELSE Estimated(score_banding(score), "banding", p)

(***************************************************************************)
(* State machine of estimate_difficulty: one call, on a cache that one     *)
(* earlier evaluation of a reply may have filled, the engine answering     *)
(* each reply it is asked about as the call's answers say.                 *)
(***************************************************************************)
InfoLosing ==
    {[k |-> "score", t |-> "PovScore", v |-> <<"cp">>, n |-> -1200],
     [k |-> "pv", t |-> "moves", v |-> <<"a8a1">>, n |-> 0],
     [k |-> "depth", t |-> "int", v |-> <<"25">>, n |-> 0]}

InfoMateInThree ==
    {[k |-> "score", t |-> "PovScore", v |-> <<"mate">>, n |-> -3],
     [k |-> "pv", t |-> "moves", v |-> <<"a8a1", "g1h2", "a1h1">>, n |-> 0],
     [k |-> "depth", t |-> "int", v |-> <<"25">>, n |-> 0]}

ProbeAnswers ==
    {[status |-> "ok", lines |-> <<InfoQuiet>>],
     [status |-> "ok", lines |-> <<InfoWinning>>],
     [status |-> "ok", lines |-> <<InfoLosing>>],
     [status |-> "failed", lines |-> <<InfoQuiet>>]}

EstimateScores == {0, 200, 201, 500, 501, 1000, 1001, -1500}

EstimateInfos ==
    {InfoDict(InfoQuiet), InfoDict(InfoMate), InfoDict(InfoMateInTwo),
     InfoDict(InfoMateInThree), InfoDict(serializable_info(InfoWinning)),
     ScoreOnly(InfoMate), OtherShape}

EstimateFens == BoardFens \cup {"", "not a fen"}

\* the probe asks the engine only when the score is decisive and the info
\* holds a score that is no mate
Probes(score, info, fen) ==
    /\ fen \in BoardFens /\ ~is_checkmate(fen)
    /\ has_score_key(info) \/ has_is_mate(info)
    /\ ~is_mate(info.items)
    /\ Abs(score) > 1000

AnswerLists(score, info, fen) ==
    IF Probes(score, info, fen)
    THEN [1 .. Len(legal_moves(fen)) -> ProbeAnswers]
    ELSE {[i \in 1 .. Len(legal_moves(fen)) |-> [status |-> "ok", lines |-> <<InfoQuiet>>]]}

EstimateDifficulty(score, info, fen, answers) ==
    LET r == estimate_difficulty(ProbeStart(cache, hits, misses, file, stored),
                                 score, info, fen, answers, now)
    IN /\ ~estimate.made
       /\ cache' = r.probe.cache
       /\ hits' = r.probe.hits
       /\ misses' = r.probe.misses
       /\ file' = r.probe.file
       /\ stored' = r.probe.stored
       /\ estimate' = [made |-> TRUE, score |-> score, info |-> info, fen |-> fen,
                       answers |-> answers, raised |-> r.raised, label |-> r.label,
                       rule |-> r.rule, evaluations |-> r.probe.evaluations,
                       engine_calls |-> r.probe.engine_calls,
                       winning_moves |-> r.probe.winning_moves,
                       cached_before |-> DOMAIN cache]
       /\ UNCHANGED <<now, ret, calls>>

\* an evaluation of the first reply of fenA at the start, at the budget of the
\* probe
WarmFens == {"fenA.1"}

WarmBudgets == {<<10, 10, 1>>}

WarmAnswers == {[status |-> "ok", lines |-> <<InfoWinning>>]}

NextEstimate ==
    /\ \/ /\ \E fen \in WarmFens, budget \in WarmBudgets, engine \in WarmAnswers :
                 EvaluatePosition(fen, budget, engine)
          /\ calls = 0 /\ now = 0
          /\ ~estimate.made
          /\ UNCHANGED estimateVars
       \/ Tick /\ ~estimate.made /\ UNCHANGED estimateVars
       \/ \E score \in EstimateScores, info \in EstimateInfos, fen \in EstimateFens :
              \E answers \in AnswerLists(score, info, fen) :
                  EstimateDifficulty(score, info, fen, answers)
    /\ UNCHANGED <<selectorVars, lessonVars, otherVars>>

SpecEstimate == InitCache /\ [][NextEstimate]_vars

(***************************************************************************)
(* Properties of the cache.                                                *)
(***************************************************************************)
LastKey == generate_key(ret.args[1], ret.args[2], ret.args[3], ret.args[4])

\* C5: a get with the parameters of an earlier set, made before max-age has
\* elapsed and with no clear in between, returns the score and mate given to
\* set and the metadata set stored (its serializable copy).
C5_GetReturnsWhatSetStored ==
    (ret.op = "get" /\ ret.prior.known /\ ret.prior.age < max_age_seconds) =>
        ret.value = Found(ret.prior.score, ret.prior.mate, serializable_info(ret.prior.info))

\* a hit on an entry stored at an earlier time, beside an entry of another
\* four-tuple holding another result
C5_Witness ==
    /\ ret.op = "get"
    /\ ret.prior.known
    /\ ret.prior.age > 0
    /\ ret.prior.age < max_age_seconds
    /\ ret.value.found
    /\ ret.value.info # ret.prior.info
    /\ \E tp \in DOMAIN stored : tp # ret.args /\ stored[tp].score # ret.prior.score

\* C6: a get on an entry whose age has reached max_age_seconds returns None,
\* leaves the entry out of the map and out of get_stats().cached_positions,
\* and counts no hit; a get never returns an expired entry.
C6_ExpiredEntryIsAbsentAndPurged ==
    /\ (ret.op = "get" /\ ret.prior.known /\ ret.prior.age >= max_age_seconds) =>
           /\ ret.value = NotFound
           /\ LastKey \notin DOMAIN cache
           /\ get_stats(cache, hits, misses).cached_positions
                  = ret.cached_before - (IF ret.present_before THEN 1 ELSE 0)
           /\ hits = ret.hits_before
    /\ (ret.op = "get" /\ ret.value.found) =>
           (ret.prior.known /\ ret.prior.age < max_age_seconds)

\* the expired entry was still in the map when get was called, and a fresh
\* entry of another four-tuple stays
C6_Witness ==
    /\ ret.op = "get"
    /\ ret.prior.known
    /\ ret.prior.age >= max_age_seconds
    /\ ret.present_before
    /\ ret.value = NotFound
    /\ Cardinality(DOMAIN cache) = 1

\* C7: a get whose four-tuple was never given to set returns None and counts
\* as a miss, whatever other four-tuples are stored.
C7_OtherParametersMiss ==
    (ret.op = "get" /\ ~ret.prior.known) =>
        /\ ret.value = NotFound
        /\ misses = ret.misses_before + 1
        /\ hits = ret.hits_before

\* the four-tuple asked for is one parameter away from a fresh entry
C7_Witness ==
    /\ ret.op = "get"
    /\ ~ret.prior.known
    /\ ret.args # BaseTuple
    /\ BaseTuple \in DOMAIN stored
    /\ generate_key(BaseTuple[1], BaseTuple[2], BaseTuple[3], BaseTuple[4]) \in DOMAIN cache
    /\ now - stored[BaseTuple].timestamp < max_age_seconds
    /\ ret.value = NotFound

\* C8: a call of evaluate_position for a four-tuple whose last engine result
\* was obtained less than max-age ago does not ask the engine and returns that
\* result's score and mate; every engine result returned is in the cache.
C8_EvaluatePositionMemoizes ==
    /\ (ret.op = "evaluate" /\ ret.prior.known /\ ret.prior.age < max_age_seconds) =>
           /\ ret.engine_calls = 0
           /\ ret.value.score = ret.prior.score
           /\ ret.value.mate = ret.prior.mate
    /\ (ret.op = "evaluate" /\ ret.engine_calls > 0) =>
           /\ LastKey \in DOMAIN cache
           /\ cache[LastKey].score = ret.value.score
           /\ cache[LastKey].mate = ret.value.mate

\* a second call, later than the first and with the budget left to the
\* defaults, answered from the cache with a forced mate
C8_Witness ==
    /\ ret.op = "evaluate"
    /\ ret.prior.known
    /\ ret.prior.age > 0
    /\ ret.prior.age < max_age_seconds
    /\ ret.engine_calls = 0
    /\ ret.value.mate = Some(1)
    /\ hits = 1

(***************************************************************************)
(* ContentGenerator and the AI client (content_generator.py).              *)
(***************************************************************************)
\* get_theme_info(theme): the registry entry, or the entry made up for a theme
\* the registry does not hold
THEME_REGISTRY ==
    [name \in {"fork", "pin", "mate"} |->
        [name |-> name,
         display_name |-> CASE name = "fork" -> "Fork Tactics"
                            [] name = "pin" -> "Pin Tactics"
                            [] OTHER -> "Checkmate Patterns"]]

get_theme_info(theme) ==
    IF theme \in DOMAIN THEME_REGISTRY THEN THEME_REGISTRY[theme]
    ELSE [name |-> theme, display_name |-> title(replace(theme, "_", " "))]

\* What the text-generation service does with one request: it answers with a
\* text, answers with no text at all, or fails.
ServiceText(text) == [kind |-> "text", text |-> text]

ServiceEmpty == [kind |-> "empty", text |-> ""]

ServiceFailure(message) == [kind |-> "failure", text |-> message]

ServiceNoLibrary == [kind |-> "no_library", text |-> ""]

\* SimpleAIClient.get_completion once the API key is configured
get_completion(outcome) ==
    CASE outcome.kind = "text" -> Some(outcome.text)
      [] outcome.kind = "empty" -> [some |-> FALSE, v |-> ""]
      [] outcome.kind = "no_library" -> Some("OpenAI library not installed.")
      [] OTHER -> Some("AI generation error: " \o outcome.text)

\* ContentGenerator._generate_ai_content(prompt); client.answers[prompt] is
\* what the service does with that prompt
generate_ai_content(client, prompt) ==
    IF ~client.api_key THEN "AI-generated content not available."
    ELSE LET response == get_completion(client.answers[prompt])
         IN IF response.some /\ response.v # "" /\ Len(strip(response.v)) > 20
            THEN strip(response.v)
            ELSE "Content generation failed."

\* ContentGenerator.generate_introduction / generate_summary / generate_step_content
generate_introduction(client, theme, examples) == generate_ai_content(client, "introduction")

generate_summary(client, theme, examples) == generate_ai_content(client, "summary")

generate_step_content(client, example, step_type) == generate_ai_content(client, step_type)

\* The fallback templates (first line of each), returned by the three
\* generate_* methods only from their except branches
fallback_introduction(theme_info, examples) ==
    "Welcome to " \o theme_info.display_name \o "!"

fallback_summary(theme_info, examples) ==
    "Lesson Summary: " \o theme_info.display_name

fallback_step_content(example, step_type) ==
    CASE step_type = "example" ->
           "Analyze this position and find the best move. Rating: " \o ToString(example.rating)
      [] step_type = "solution" ->
           "The solution is: " \o join(Take(example.solution_moves, 2))
      [] OTHER -> "Content for " \o step_type \o " step."

problematic_phrases ==
    {"I cannot", "I'm sorry", "As an AI", "I don't have access",
     "Content generation failed", "Error", "Failed to generate"}

\* ContentGenerator.validate_content(content)
validate_content(content) ==
    /\ content # ""
    /\ Len(strip(content)) >= 20
    /\ \A phrase \in problematic_phrases : ~Contains(lower(content), lower(phrase))

(***************************************************************************)
(* LessonBuilder (lesson_builder.py).                                      *)
(***************************************************************************)
NoStep == [raised |-> TRUE, step |-> [order |-> 0]]

Built(step) == [raised |-> FALSE, step |-> step]

\* LessonStep: the fields the builder fills (ids are fresh uuid4 values)
LessonStep(step_type, step_title, content, example, solution_moves, order) ==
    [step_type |-> step_type,
     title |-> step_title,
     content |-> content,
     position |-> example.fen,
     example |-> example,
     solution_moves |-> solution_moves,
     order |-> order]

NoMoves == [some |-> FALSE, v |-> <<>>]

\* LessonBuilder._create_example_step; fen.split()[1] raises IndexError when
\* the position has fewer than two fields
create_example_step(client, example, index, cfg) ==
    LET fields == split(example.fen)
        step_title == "Example " \o ToString(index + 1) \o ": Find the Best Move"
        order == IF cfg.include_analysis THEN index * 3 + 1 ELSE index * 2 + 1
    IN IF cfg.include_analysis
       THEN Built(LessonStep("example", step_title,
                             generate_step_content(client, example, "example"),
                             example, NoMoves, order))
       ELSE IF Len(fields) < 2 THEN NoStep
       ELSE Built(LessonStep("example", step_title,
                             "Find the best move for "
                               \o (IF Contains(fields[2], "b") THEN "Black" ELSE "White")
                               \o " in this position.",
                             example, NoMoves, order))

\* the solution step's order key taken as 3i+2 whether or not analysis is included
solution_order_as_with_analysis(index, cfg) == index * 3 + 2

\* LessonBuilder._create_solution_step: the order key of the solution step
solution_order(index, cfg) ==
    IF cfg.include_analysis THEN index * 3 + 2 ELSE index * 2 + 2

\* LessonBuilder._create_solution_step
create_solution_step(client, example, index, cfg) ==
    LET content == IF cfg.include_analysis
                   THEN generate_step_content(client, example, "solution")
                   ELSE "The solution is: " \o join(Take(example.solution_moves, 3))
    IN Built(LessonStep("solution", "Example " \o ToString(index + 1) \o ": Solution",
                        content, example, Some(example.solution_moves),
                        solution_order(index, cfg)))

\* LessonBuilder._create_analysis_step
create_analysis_step(client, example, index, cfg) ==
    Built(LessonStep("analysis", "Example " \o ToString(index + 1) \o ": Analysis",
                     generate_step_content(client, example, "analysis"),
                     example, Some(example.solution_moves), index * 3 + 3))

\* The body of the loop of _build_lesson_steps: the steps of one example, or
\* none when creating one of them raised (the except branch continues)
example_steps(client, example, index, cfg) ==
    LET made == IF cfg.include_analysis
                THEN <<create_example_step(client, example, index, cfg),
                       create_solution_step(client, example, index, cfg),
                       create_analysis_step(client, example, index, cfg)>>
                ELSE <<create_example_step(client, example, index, cfg),
                       create_solution_step(client, example, index, cfg)>>
    IN IF \E k \in DOMAIN made : made[k].raised THEN <<>>
       ELSE [k \in DOMAIN made |-> made[k].step]

\* LessonBuilder._build_lesson_steps, from the example at 0-based index on
RECURSIVE build_lesson_steps_from(_, _, _, _)
build_lesson_steps_from(client, examples, cfg, index) ==
    IF index >= Len(examples) THEN <<>>
    ELSE example_steps(client, examples[index + 1], index, cfg)
         \o build_lesson_steps_from(client, examples, cfg, index + 1)

build_lesson_steps(client, examples, cfg) ==
    build_lesson_steps_from(client, examples, cfg, 0)

RECURSIVE SumSeq(_)
SumSeq(s) == IF Len(s) = 0 THEN 0 ELSE Head(s) + SumSeq(Tail(s))

\* min(ratings), max(ratings)
MinOf(S) == CHOOSE x \in S : \A y \in S : x <= y

MaxOf(S) == CHOOSE x \in S : \A y \in S : x >= y

\* LessonBuilder._create_lesson_metadata; an average is kept as the exact
\* quotient [num / den]
create_lesson_metadata(cfg, examples) ==
    LET ratings == [k \in DOMAIN examples |-> examples[k].rating]
        quality_scores == [k \in DOMAIN examples |-> examples[k].quality_score]
        n == Len(examples)
        base_time == IF cfg.include_analysis THEN 8 ELSE 5
    IN [example_count |-> n,
        avg_rating |-> IF n > 0 THEN [num |-> SumSeq(ratings), den |-> n]
                       ELSE [num |-> 1500, den |-> 1],
        min_rating |-> IF n > 0 THEN MinOf(Range(ratings)) ELSE 1500,
        max_rating |-> IF n > 0 THEN MaxOf(Range(ratings)) ELSE 1500,
        avg_quality_score |-> IF n > 0 THEN [num |-> SumSeq(quality_scores), den |-> n]
                              ELSE [num |-> 50, den |-> 1],
        themes_covered |-> UNION {Range(examples[k].themes) : k \in DOMAIN examples},
        estimated_duration_minutes |-> n * base_time,
        includes_analysis |-> cfg.include_analysis,
        progressive_difficulty |-> cfg.progressive_difficulty]

\* LessonBuilder._generate_lesson_title
generate_lesson_title(cfg, theme_info) ==
    LET prefix == CASE cfg.difficulty = "beginner" -> "Introduction to"
                    [] cfg.difficulty = "intermediate" -> "Mastering"
                    [] cfg.difficulty = "advanced" -> "Advanced"
                    [] OTHER -> "Expert-Level"
    IN strip(prefix \o " " \o theme_info.display_name)

\* LessonBuilder._validate_lesson: the message of the ValueError it raises, or
\* "" when the lesson passes (a duplicate order key and a metadata mismatch are
\* logged only)
\* a gate that does not look at the positions of the steps
validate_lesson_without_position(lesson_title, introduction, steps, summary) ==
    IF lesson_title = "" \/ introduction = "" \/ summary = ""
    THEN "Lesson missing required content"
    ELSE IF Len(steps) = 0 THEN "Lesson has no steps"
    ELSE IF \E k \in DOMAIN steps : steps[k].title = "" \/ steps[k].content = ""
    THEN "Step missing required content"
    ELSE ""

\* LessonBuilder._validate_lesson: the warnings it logs when it raises nothing
validation_warnings(steps, metadata) ==
    (IF Cardinality({steps[k].order : k \in DOMAIN steps}) # Len(steps)
     THEN {"Duplicate step orders detected"} ELSE {})
    \cup (IF metadata.example_count
              # Cardinality({k \in DOMAIN steps : steps[k].step_type = "example"})
          THEN {"Metadata example count mismatch"} ELSE {})

\* LessonBuilder._validate_lesson: the message of the ValueError it raises, ""
\* when it raises none
validate_lesson(lesson_title, introduction, steps, summary) ==
    LET bad_content == {k \in DOMAIN steps : steps[k].title = "" \/ steps[k].content = ""}
        bad_position == {k \in DOMAIN steps : steps[k].position = ""}
        bad == {k \in bad_content \cup bad_position :
                   \A j \in bad_content \cup bad_position : k <= j}
    IN IF lesson_title = "" \/ introduction = "" \/ summary = ""
       THEN "Lesson missing required content"
       ELSE IF Len(steps) = 0 THEN "Lesson has no steps"
       ELSE IF bad = {} THEN ""
       ELSE IF bad \subseteq bad_content THEN "Step missing required content"
       ELSE "Step missing chess position"

\* LessonBuilder.build_lesson_from_examples(examples, config) with the client
\* the content generator talks to.  error is the exception the call ends with
\* ("" when it returns the lesson); ChessLesson.__post_init__ numbers the steps.
build_lesson_from_examples(client, examples, cfg) ==
    LET theme_info == get_theme_info(cfg.theme)
        introduction == generate_introduction(client, cfg.theme, examples)
        steps == build_lesson_steps(client, examples, cfg)
        summary == generate_summary(client, cfg.theme, examples)
        metadata == create_lesson_metadata(cfg, examples)
        lesson_title == generate_lesson_title(cfg, theme_info)
    IN [built |-> TRUE,
        error |-> validate_lesson(lesson_title, introduction, steps, summary),
        examples |-> examples,
        config |-> cfg,
        client |-> client,
        title |-> lesson_title,
        theme |-> cfg.theme,
        difficulty |-> cfg.difficulty,
        introduction |-> introduction,
        steps |-> [k \in DOMAIN steps |-> [step_number |-> k, step |-> steps[k]]],
        summary |-> summary,
        metadata |-> metadata]

(***************************************************************************)
(* State machine of the lesson builder: one build_lesson_from_examples     *)
(* call over a list of examples, a configuration and a behaviour of the    *)
(* text-generation service.                                                *)
(***************************************************************************)
MaxItems == 3

LessonThemes == {"mate", "back_rank"}

\* examples of the first three pool rows: White to move, Black to move, and
\* a position of one field
LessonExamples == {PuzzleExample(Row(i)) : i \in 1 .. 3}

ExampleLists == UNION {[1 .. n -> LessonExamples] : n \in 0 .. MaxItems}

GoodText == "Look for the double attack on king and rook."

RefusalText == "I'm sorry, I cannot help with that"

ShortText == "  Fork wins.  "

ServiceOutcomes ==
    {ServiceText(GoodText), ServiceText(RefusalText), ServiceText(ShortText),
     ServiceEmpty, ServiceFailure("timeout")}

Prompts == {"introduction", "summary", "example", "solution", "analysis"}

\* a client without an API key is never asked; one with a key answers the
\* lesson-level prompts (introduction, summary) and the step prompts
Clients ==
    {[api_key |-> FALSE, answers |-> [p \in Prompts |-> ServiceEmpty]]}
    \cup {[api_key |-> TRUE,
           answers |-> [p \in Prompts |->
                          IF p \in {"introduction", "summary"} THEN a ELSE c]] :
             a \in ServiceOutcomes, c \in ServiceOutcomes}

BuildLessonFromExamples(client, examples, cfg) ==
    /\ lesson = [built |-> FALSE]
    /\ lesson' = build_lesson_from_examples(client, examples, cfg)
    /\ request' = [op |-> "build_lesson_from_examples", repository_ok |-> TRUE]
    /\ UNCHANGED stats

LessonRequest ==
    \E client \in Clients, examples \in ExampleLists,
       theme \in LessonThemes, analysis \in BOOLEAN :
        BuildLessonFromExamples(client, examples,
            [MakeConfig(theme, "intermediate", Len(examples), DefaultExampleCount,
                        70, TRUE, 0, 0) EXCEPT !.include_analysis = analysis])

NextLesson == LessonRequest /\ UNCHANGED <<selectorVars, cacheVars, estimateVars, otherVars>>

SpecLesson == InitCache /\ [][NextLesson]_vars

(***************************************************************************)
(* State machine of the validation gate: _validate_lesson called on a      *)
(* lesson whose texts, steps and metadata are any of the values below.     *)
(***************************************************************************)
MaxSteps == 2

\* a step with a title, a body and a position
GateStep(step_type, order) ==
    [step_type |-> step_type, title |-> "Example 1: Find the Best Move",
     content |-> GoodText, position |-> PoolFens[1], order |-> order]

GateSteps ==
    {GateStep("example", 1), GateStep("solution", 2), GateStep("solution", 1),
     [GateStep("example", 1) EXCEPT !.title = ""],
     [GateStep("example", 1) EXCEPT !.content = ""],
     [GateStep("example", 1) EXCEPT !.position = ""]}

GateStepLists == UNION {[1 .. n -> GateSteps] : n \in 0 .. MaxSteps}

GateTexts == {"", GoodText}

ValidateLesson(lesson_title, introduction, steps, summary, example_count) ==
    /\ lesson = [built |-> FALSE]
    /\ lesson' = [built |-> TRUE,
                  error |-> validate_lesson(lesson_title, introduction, steps, summary),
                  warnings |-> IF validate_lesson(lesson_title, introduction, steps, summary) = ""
                               THEN validation_warnings(steps, [example_count |-> example_count])
                               ELSE {},
                  title |-> lesson_title,
                  introduction |-> introduction,
                  steps |-> steps,
                  summary |-> summary,
                  metadata |-> [example_count |-> example_count]]
    /\ request' = [op |-> "validate_lesson", repository_ok |-> TRUE]
    /\ UNCHANGED stats

NextValidate ==
    /\ \E lesson_title \in GateTexts, introduction \in GateTexts, summary \in GateTexts,
          steps \in GateStepLists, example_count \in 0 .. MaxSteps :
           ValidateLesson(lesson_title, introduction, steps, summary, example_count)
    /\ UNCHANGED <<selectorVars, cacheVars, estimateVars, otherVars>>

SpecValidate == InitCache /\ [][NextValidate]_vars

(***************************************************************************)
(* LessonBuilder.build_lesson and ChessLessonEngine.generate_lesson        *)
(* (lesson_builder.py, engine.py).                                         *)
(***************************************************************************)
\* ExampleSelector._search_candidate_puzzles: the repository result, or []
\* from the except branch when the query raises
search_candidate_puzzles(rows, repository_ok, cfg) ==
    IF repository_ok
    THEN search_puzzles(rows, cfg.theme, resolved_min(cfg), resolved_max(cfg),
                        cfg.min_quality_threshold, search_limit(cfg))
    ELSE <<>>

\* select_examples that takes no notice of a failed query
select_examples_ignoring_failure(rows, repository_ok, cfg) == select_examples(rows, cfg)

\* select_examples over a repository that answers or fails
select_examples_from(rows, repository_ok, cfg) ==
    IF search_candidate_puzzles(rows, repository_ok, cfg) = <<>> THEN <<>>
    ELSE select_examples(rows, cfg)

\* a call that ended by raising: no lesson is returned
FailedLesson(error, client, cfg) ==
    [built |-> TRUE,
     error |-> error,
     examples |-> <<>>,
     config |-> cfg,
     client |-> client,
     title |-> "",
     theme |-> cfg.theme,
     difficulty |-> cfg.difficulty,
     introduction |-> "",
     steps |-> <<>>,
     summary |-> "",
     metadata |-> create_lesson_metadata(cfg, <<>>)]

\* LessonBuilder.build_lesson(config) once the examples are selected
build_lesson(client, examples, cfg) ==
    IF examples = <<>>
    THEN FailedLesson("No suitable examples found for " \o cfg.theme, client, cfg)
    ELSE build_lesson_from_examples(client, examples, cfg)

\* ChessLessonEngine._update_stats(lesson)
update_stats(st, built_lesson) ==
    [lessons_generated |-> st.lessons_generated + 1,
     examples_used |-> st.examples_used + built_lesson.metadata.example_count,
     themes_covered |-> st.themes_covered \cup {built_lesson.theme}]

\* models.py: TACTICAL_THEMES = THEME_REGISTRY
TACTICAL_THEMES == DOMAIN THEME_REGISTRY

\* models.py: LessonGenerationConfig.min_quality_threshold default, in hundredths
DefaultQualityThreshold == 70

\* the LessonGenerationConfig generate_lesson builds: it passes theme,
\* difficulty, num_examples, include_analysis and progressive_difficulty and
\* leaves every other field, enable_progressive_difficulty included, at its
\* default
engine_config(theme, difficulty, num_examples, include_analysis, progressive_difficulty) ==
    [MakeConfig(theme, difficulty, num_examples, DefaultExampleCount,
                DefaultQualityThreshold, TRUE, 0, 0)
       EXCEPT !.include_analysis = include_analysis,
              !.progressive_difficulty = progressive_difficulty]

(***************************************************************************)
(* State machine of the engine: one build_lesson or generate_lesson call   *)
(* on the repository chosen at start, which answers the query or fails.    *)
(***************************************************************************)
EngineThemes == {"mate", "back_rank"}

\* the client without an API key, and one whose service answers every prompt
EngineClients ==
    {[api_key |-> FALSE, answers |-> [p \in Prompts |-> ServiceEmpty]],
     [api_key |-> TRUE, answers |-> [p \in Prompts |-> ServiceText(GoodText)]]}

BuildLesson(client, cfg, repository_ok) ==
    LET examples == select_examples_from(db, repository_ok, cfg)
    IN /\ request = NoRequest
       /\ request' = [op |-> "build_lesson", repository_ok |-> repository_ok]
       /\ config' = cfg
       /\ candidates' = IF repository_ok THEN puzzle_examples(db, cfg) ELSE <<>>
       /\ selected' = examples
       /\ lesson' = build_lesson(client, examples, cfg)
       /\ UNCHANGED <<db, stats>>

GenerateLesson(client, theme, difficulty, num_examples, analysis, progressive, repository_ok) ==
    LET cfg == engine_config(theme, difficulty, num_examples, analysis, progressive)
        examples == select_examples_from(db, repository_ok, cfg)
        result == build_lesson(client, examples, cfg)
    IN /\ request = NoRequest
       /\ request' = [op |-> "generate_lesson", repository_ok |-> repository_ok]
       /\ IF theme \notin TACTICAL_THEMES
          THEN /\ lesson' = FailedLesson("Invalid theme", client, cfg)
               /\ UNCHANGED <<db, config, candidates, selected, stats>>
          ELSE /\ config' = cfg
               /\ candidates' = IF repository_ok THEN puzzle_examples(db, cfg) ELSE <<>>
               /\ selected' = examples
               /\ lesson' = result
               /\ stats' = IF result.error = "" THEN update_stats(stats, result) ELSE stats
               /\ UNCHANGED db

EngineRequest ==
    \/ \E client \in EngineClients, difficulty \in RequestDifficulties,
          n \in 0 .. MaxCount, analysis \in BOOLEAN, progressive \in BOOLEAN,
          repository_ok \in BOOLEAN :
           BuildLesson(client,
               [MakeConfig("mate", difficulty, n, DefaultExampleCount,
                           DefaultQualityThreshold, progressive, 0, 0)
                  EXCEPT !.include_analysis = analysis],
               repository_ok)
    \/ \E client \in EngineClients, theme \in EngineThemes,
          difficulty \in RequestDifficulties, n \in 0 .. MaxCount,
          analysis \in BOOLEAN, progressive \in BOOLEAN, repository_ok \in BOOLEAN :
           GenerateLesson(client, theme, difficulty, n, analysis, progressive,
                          repository_ok)

NextEngine == EngineRequest /\ UNCHANGED <<cacheVars, estimateVars, otherVars>>

SpecEngine == InitSelector /\ [][NextEngine]_vars

(***************************************************************************)
(* analyze_lesson_pgn (chess_utils.py): the starting position and the      *)
(* final position of the main line are evaluated through the cache, and    *)
(* the difficulty is estimated from what evaluate_position returned for    *)
(* the starting position.  The main line has no move or one move.          *)
(***************************************************************************)
\* the state a call of evaluate_position leaves, from the state p it found
after_evaluation(p, r, fen, time) ==
    [p EXCEPT !.cache = r.cache,
              !.hits = IF r.hit THEN @ + 1 ELSE @,
              !.misses = IF r.hit THEN @ ELSE @ + 1,
              !.file = IF r.stored THEN save_after_set(r.cache, @) ELSE @,
              !.stored = IF r.stored
                         THEN MapPut(@, <<fen, default_time_limit, default_min_depth,
                                           default_multipv>>,
                                     [score |-> r.value.score, mate |-> r.value.mate,
                                      info |-> r.value.info, timestamp |-> time])
                         ELSE @,
              !.raised = r.raised]

\* evaluate_position(starting_fen) at the default budget
evaluate_start(starting_fen, engine) ==
    evaluate_position(cache, starting_fen, 0, 0, 0, engine, now)

\* the result analyze_lesson_pgn returns, with the cache state it leaves, from
\* the two evaluations and the estimate; an exception of either evaluation or
\* of the estimator gives the error result
analyze_lesson_pgn(start, p1, final, p2, est) ==
    IF start.raised
    THEN [error |-> TRUE, hit |-> FALSE, difficulty |-> "none", rule |-> "none", probe |-> p1]
    ELSE IF final.raised
    THEN [error |-> TRUE, hit |-> start.hit, difficulty |-> "none", rule |-> "none",
          probe |-> p2]
    ELSE [error |-> est.raised, hit |-> start.hit, difficulty |-> est.label,
          rule |-> est.rule, probe |-> est.probe]

\* the analyses made on one cache
MaxAnalyses == 2

AnalyzeFens == {"fenB", "fenMate"}

\* the final position of the main line: the starting position, or the
\* position after its first legal move
FinalFens(starting_fen) ==
    {starting_fen} \cup {legal_moves(starting_fen)[i] : i \in DOMAIN legal_moves(starting_fen) \cap {1}}

AnalyzeEngines ==
    {[status |-> "ok", lines |-> <<InfoQuiet>>],
     [status |-> "ok", lines |-> <<InfoWinning>>],
     [status |-> "ok", lines |-> <<InfoMateInTwo>>],
     [status |-> "failed", lines |-> <<InfoQuiet>>]}

FinalEngines == {[status |-> "ok", lines |-> <<InfoQuiet>>]}

\* each \E binds the value of one statement of the function
AnalyzeLessonPgn(starting_fen, final_fen, engine, engine_final, answers) ==
    \E p \in {ProbeStart(cache, hits, misses, file, stored)} :
    \E start \in {evaluate_position(p.cache, starting_fen, 0, 0, 0, engine, now)} :
    \E p1 \in {after_evaluation(p, start, starting_fen, now)} :
    \E final \in {evaluate_position(p1.cache, final_fen, 0, 0, 0, engine_final, now)} :
    \E p2 \in {after_evaluation(p1, final, final_fen, now)} :
    \E est \in {estimate_difficulty(p2, start.value.score.v, InfoDict(start.value.info),
                                    starting_fen, answers, now)} :
    \E r \in {analyze_lesson_pgn(start, p1, final, p2, est)} :
    \E tp \in {<<starting_fen, default_time_limit, default_min_depth, default_multipv>>} :
        /\ calls < MaxAnalyses
        /\ calls' = calls + 1
        /\ cache' = r.probe.cache
        /\ hits' = r.probe.hits
        /\ misses' = r.probe.misses
        /\ file' = r.probe.file
        /\ stored' = r.probe.stored
        /\ estimate' = [made |-> TRUE, fen |-> starting_fen, final_fen |-> final_fen,
                        error |-> r.error, hit |-> r.hit, label |-> r.difficulty,
                        rule |-> r.rule,
                        \* the label of the result the miss of this entry returned
                        miss_label |->
                            IF r.hit
                            THEN estimate_difficulty(p, stored[tp].score.v,
                                                     InfoDict(stored[tp].info),
                                                     starting_fen, answers, now).label
                            ELSE r.difficulty]
        /\ UNCHANGED <<now, ret>>

NextAnalyze ==
    /\ \/ \E starting_fen \in AnalyzeFens, engine \in AnalyzeEngines, engine_final \in FinalEngines :
              \E final_fen \in FinalFens(starting_fen) :
                  \E r \in {evaluate_start(starting_fen, engine)} :
                      \E answers \in AnswerLists(IF r.raised THEN 0 ELSE r.value.score.v,
                                                 InfoDict(r.value.info), starting_fen) :
                          AnalyzeLessonPgn(starting_fen, final_fen, engine, engine_final, answers)
       \/ Tick /\ UNCHANGED estimateVars
    /\ UNCHANGED <<selectorVars, lessonVars, otherVars>>

SpecAnalyze == InitCache /\ [][NextAnalyze]_vars

(***************************************************************************)
(* LichessClient and its RateLimiter (lichess_client.py).                  *)
(*                                                                         *)
(* Delays are seconds held as fractions [num, den] in lowest terms: the    *)
(* factors 2, 1.5 and 0.9 are applied exactly.  No product of the factors  *)
(* brings min_delay to a value of which 0.9 is min_delay again or past     *)
(* max_delay by a rounding error, so the comparisons are those of Python.  *)
(***************************************************************************)
RECURSIVE GCD(_, _)
GCD(a, b) == IF b = 0 THEN a ELSE GCD(b, a % b)

Rat(n, d) == [num |-> n \div GCD(n, d), den |-> d \div GCD(n, d)]

RatTimes(r, n, d) == Rat(r.num * n, r.den * d)

RatLess(a, b) == a.num * b.den < b.num * a.den

RatMin(a, b) == IF RatLess(b, a) THEN b ELSE a

RatMax(a, b) == IF RatLess(a, b) THEN b ELSE a

\* RateLimiter.__init__(min_delay, max_delay)
RateLimiter(min_delay, max_delay) ==
    [made |-> TRUE, min_delay |-> Rat(min_delay, 1), max_delay |-> Rat(max_delay, 1),
     requested |-> FALSE, current_delay |-> Rat(min_delay, 1), consecutive_errors |-> 0]

\* RateLimiter.wait: the time it sleeps, a request following the last one at
\* once (before the first request last_request_time is 0 and nothing is slept)
sleep_time(l) == IF l.requested THEN l.current_delay ELSE Rat(0, 1)

wait(l) == [l EXCEPT !.requested = TRUE]

\* RateLimiter.on_success
on_success(l) ==
    [l EXCEPT !.consecutive_errors = 0,
              !.current_delay = RatMax(l.min_delay, RatTimes(l.current_delay, 9, 10))]

\* RateLimiter.on_error(status_code); status_code 0 is None
on_error(l, status_code) ==
    [l EXCEPT !.consecutive_errors = l.consecutive_errors + 1,
              !.current_delay =
                  IF status_code = 429
                  THEN RatMin(l.max_delay, RatTimes(l.current_delay, 2, 1))
                  ELSE RatMin(l.max_delay, RatTimes(l.current_delay, 3, 2))]

\* what session.get does: a response with a status code, or a
\* requests.exceptions.RequestException (status 0)
Responded(status_code) == [transport_error |-> FALSE, status_code |-> status_code]

TransportError == [transport_error |-> TRUE, status_code |-> 0]

\* LichessClient._make_request: response.raise_for_status() raises HTTPError,
\* a RequestException, for a status from 400 on, inside the try block whose
\* except branch calls on_error() again; for another status than 200 below
\* 400 it raises nothing and the method returns None
make_request(l, outcome) ==
    IF outcome.transport_error
    THEN [limiter |-> on_error(wait(l), 0), raised |-> TRUE, returned |-> "nothing"]
    ELSE IF outcome.status_code = 200
    THEN [limiter |-> on_success(wait(l)), raised |-> FALSE, returned |-> "response"]
    ELSE IF outcome.status_code >= 400
    THEN [limiter |-> on_error(on_error(wait(l), outcome.status_code), 0),
          raised |-> TRUE, returned |-> "nothing"]
    ELSE [limiter |-> on_error(wait(l), outcome.status_code),
          raised |-> FALSE, returned |-> "nothing"]

(***************************************************************************)
(* State machine of the client: requests one after the other, each         *)
(* answered in any of the ways below.                                      *)
(***************************************************************************)
MaxRequests == 4

\* lichess.min_delay and lichess.max_delay, at their defaults, in seconds
min_delay == 3

max_delay == 60

RequestOutcomes ==
    {Responded(200), Responded(304), Responded(429), Responded(500), TransportError}

InitClient ==
    /\ InitCache
    /\ limiter = NoLimiter

\* LichessClient.__init__
NewClient ==
    /\ ~limiter.made
    /\ limiter' = [state |-> RateLimiter(min_delay, max_delay), made |-> TRUE, requests |-> 0,
                   outcome |-> Responded(200), raised |-> FALSE, returned |-> "nothing",
                   slept |-> Rat(0, 1), before |-> RateLimiter(min_delay, max_delay)]

MakeRequest(outcome) ==
    LET r == make_request(limiter.state, outcome)
    IN /\ limiter.made
       /\ limiter.requests < MaxRequests
       /\ limiter' = [state |-> r.limiter, made |-> TRUE, requests |-> limiter.requests + 1,
                      outcome |-> outcome, raised |-> r.raised, returned |-> r.returned,
                      slept |-> sleep_time(limiter.state), before |-> limiter.state]

NextClient ==
    /\ \/ NewClient
       \/ \E outcome \in RequestOutcomes : MakeRequest(outcome)
    /\ UNCHANGED <<selectorVars, cacheVars, lessonVars, estimateVars, flushVars, threadVars>>

SpecClient == InitClient /\ [][NextClient]_vars

(***************************************************************************)
(* Two callers of the one position_cache.  cache.py takes no lock, so a    *)
(* caller can be suspended between any two statements of a method while    *)
(* the other runs: each action below is one statement (or one iteration)   *)
(* of get, set or cleanup_expired, executed by one caller.                 *)
(***************************************************************************)
ThreadTuples == {<<"fenA", 10, 10, 1>>, <<"fenB", 10, 10, 1>>}

ThreadValue == [score |-> Some(35), mate |-> None, info |-> InfoQuiet]

Becomes(t, caller) == threads' = [threads EXCEPT ![t] = caller]

\* get, "if key in self._cache:", and the miss when it is not
BeginGet(t, tp) ==
    LET key == generate_key(tp[1], tp[2], tp[3], tp[4])
    IN /\ threads[t].pc = "idle"
       /\ calls < MaxCalls
       /\ calls' = calls + 1
       /\ IF key \in DOMAIN cache
          THEN /\ Becomes(t, [IdleCaller EXCEPT !.pc = "get_read", !.op = "get", !.key = key])
               /\ UNCHANGED misses
          ELSE /\ Becomes(t, [IdleCaller EXCEPT !.op = "get", !.key = key])
               /\ misses' = misses + 1
       /\ UNCHANGED <<cache, hits, now, file, ret, stored>>

\* get, "entry = self._cache[key]" and the test of its age
GetRead(t) ==
    LET key == threads[t].key
    IN /\ threads[t].pc = "get_read"
       /\ IF key \notin DOMAIN cache
          THEN /\ Becomes(t, [threads[t] EXCEPT !.pc = "idle", !.raised = "KeyError"])
               /\ UNCHANGED hits
          ELSE IF now - cache[key].timestamp < max_age_seconds
          THEN /\ Becomes(t, [threads[t] EXCEPT
                                  !.pc = "idle", !.age = now - cache[key].timestamp,
                                  !.value = Found(cache[key].score, cache[key].mate,
                                                  cache[key].info)])
               /\ hits' = hits + 1
          ELSE /\ Becomes(t, [threads[t] EXCEPT !.pc = "get_delete"])
               /\ UNCHANGED hits
       /\ UNCHANGED <<cache, misses, now, file, ret, stored, calls>>

\* get, "del self._cache[key]" and the miss that follows
GetDelete(t) ==
    LET key == threads[t].key
    IN /\ threads[t].pc = "get_delete"
       /\ IF key \notin DOMAIN cache
          THEN /\ Becomes(t, [threads[t] EXCEPT !.pc = "idle", !.raised = "KeyError"])
               /\ UNCHANGED <<cache, misses>>
          ELSE /\ Becomes(t, [threads[t] EXCEPT
                                  !.pc = "idle",
                                  !.lost = now - cache[key].timestamp < max_age_seconds])
               /\ cache' = MapRemove(cache, {key})
               /\ misses' = misses + 1
       /\ UNCHANGED <<hits, now, file, ret, stored, calls>>

\* set
SetEntry(t, tp, val) ==
    /\ threads[t].pc = "idle"
    /\ calls < MaxCalls
    /\ calls' = calls + 1
    /\ cache' = cache_set(cache, tp[1], tp[2], tp[3], tp[4], val.score, val.mate, val.info, now)
    /\ file' = save_after_set(cache', file)
    /\ Becomes(t, [IdleCaller EXCEPT !.op = "set",
                                     !.key = generate_key(tp[1], tp[2], tp[3], tp[4])])
    /\ UNCHANGED <<hits, misses, now, ret, stored>>

\* cleanup_expired, up to the iterator over self._cache.items()
BeginCleanup(t) ==
    /\ threads[t].pc = "idle"
    /\ calls < MaxCalls
    /\ calls' = calls + 1
    /\ Becomes(t, [IdleCaller EXCEPT !.pc = "scan", !.op = "cleanup_expired",
                                     !.current_time = now,
                                     !.initial_count = Cardinality(DOMAIN cache),
                                     !.size = Cardinality(DOMAIN cache)])
    /\ UNCHANGED <<cache, hits, misses, now, file, ret, stored>>

\* cleanup_expired, one iteration of the list comprehension: the iterator
\* raises RuntimeError when the size of the dict is not the one it started
\* with, and when it finds an entry after having given that many
ScanNext(t) ==
    LET left == DOMAIN cache \ threads[t].seen
        k == CHOOSE key \in left : TRUE
    IN /\ threads[t].pc = "scan"
       /\ IF \/ Cardinality(DOMAIN cache) # threads[t].size
             \/ left # {} /\ Cardinality(threads[t].seen) >= threads[t].size
          THEN Becomes(t, [threads[t] EXCEPT !.pc = "idle", !.raised = "RuntimeError"])
          ELSE IF left = {}
          THEN Becomes(t, [threads[t] EXCEPT !.pc = "delete"])
          ELSE Becomes(t, [threads[t] EXCEPT
                               !.seen = @ \cup {k},
                               !.expired =
                                   IF k \in expired_keys(cache, threads[t].current_time)
                                   THEN @ \cup {k} ELSE @])
       /\ UNCHANGED <<cache, hits, misses, now, file, ret, stored, calls>>

\* cleanup_expired, one "del self._cache[key]" of the loop, and after the
\* last one the count, the save and the return
DeleteNext(t) ==
    LET k == CHOOSE key \in threads[t].expired : TRUE
        removed_count == threads[t].initial_count - Cardinality(DOMAIN cache)
    IN /\ threads[t].pc = "delete"
       /\ IF threads[t].expired = {}
          THEN /\ Becomes(t, [threads[t] EXCEPT !.pc = "idle", !.removed = removed_count])
               /\ file' = IF removed_count > 0 THEN save_cache(cache) ELSE file
               /\ UNCHANGED cache
          ELSE IF k \notin DOMAIN cache
          THEN /\ Becomes(t, [threads[t] EXCEPT !.pc = "idle", !.raised = "KeyError"])
               /\ UNCHANGED <<cache, file>>
          ELSE /\ Becomes(t, [threads[t] EXCEPT
                                  !.expired = @ \ {k},
                                  !.lost = @ \/ now - cache[k].timestamp < max_age_seconds])
               /\ cache' = MapRemove(cache, {k})
               /\ UNCHANGED file
       /\ UNCHANGED <<hits, misses, now, ret, stored, calls>>

NextThreads ==
    /\ \/ \E t \in Callers, tp \in ThreadTuples : BeginGet(t, tp)
       \/ \E t \in Callers : GetRead(t)
       \/ \E t \in Callers : GetDelete(t)
       \/ \E t \in Callers, tp \in ThreadTuples : SetEntry(t, tp, ThreadValue)
       \/ \E t \in Callers : BeginCleanup(t)
       \/ \E t \in Callers : ScanNext(t)
       \/ \E t \in Callers : DeleteNext(t)
       \/ Tick /\ UNCHANGED threads
    /\ UNCHANGED <<selectorVars, lessonVars, estimateVars, flushVars, limiterVars>>

SpecThreads == InitCache /\ [][NextThreads]_vars

(***************************************************************************)
(* Properties of the content generator and the lesson builder.             *)
(***************************************************************************)
LessonReturned == lesson.built /\ lesson.error = ""

\* what the client returned for a prompt of the last build, if it was asked
Returned(prompt) == get_completion(lesson.client.answers[prompt])

DegradedReply(prompt) ==
    /\ lesson.client.api_key
    /\ Returned(prompt).some
    /\ ~validate_content(Returned(prompt).v)

GeneratedSteps ==
    {k \in DOMAIN lesson.steps :
        lesson.config.include_analysis /\ DegradedReply(lesson.steps[k].step.step_type)}

\* C9: whenever the text the content generator returned for a prompt fails
\* the validity check (under 20 characters after trimming, or holding a phrase
\* of the refusal list), the introduction, summary or step body made from that
\* prompt is the fallback template and not the returned text.
C9_DegradedTextReplacedByFallback ==
    LessonReturned =>
    /\ DegradedReply("introduction") =>
         /\ lesson.introduction
              = fallback_introduction(get_theme_info(lesson.theme), lesson.examples)
         /\ lesson.introduction # strip(Returned("introduction").v)
    /\ DegradedReply("summary") =>
         /\ lesson.summary = fallback_summary(get_theme_info(lesson.theme), lesson.examples)
         /\ lesson.summary # strip(Returned("summary").v)
    /\ \A k \in GeneratedSteps :
         LET step == lesson.steps[k].step
         IN /\ step.content = fallback_step_content(step.example, step.step_type)
            /\ step.content # strip(Returned(step.step_type).v)

\* every example's position has at least the board and the side-to-move field
WellFormedExamples ==
    \A k \in DOMAIN lesson.examples : Len(split(lesson.examples[k].fen)) >= 2

StepsPerExample == IF lesson.config.include_analysis THEN 3 ELSE 2

StepRoles ==
    IF lesson.config.include_analysis THEN <<"example", "solution", "analysis">>
    ELSE <<"example", "solution">>

\* 3n (2n) steps with order keys 1..3n (1..2n), the example at 0-based index
\* i holding keys 3i+1, 3i+2, 3i+3 (2i+1, 2i+2) by role, and example_count = n
StepLayout ==
    LET n == Len(lesson.examples)
        w == StepsPerExample
    IN /\ Len(lesson.steps) = w * n
       /\ {lesson.steps[k].step.order : k \in DOMAIN lesson.steps} = 1 .. (w * n)
       /\ \A i \in 0 .. (n - 1) : \A r \in 1 .. w :
            \E k \in DOMAIN lesson.steps :
               /\ lesson.steps[k].step.order = w * i + r
               /\ lesson.steps[k].step.step_type = StepRoles[r]
               /\ lesson.steps[k].step.example = lesson.examples[i + 1]
               /\ lesson.steps[k].step_number = w * i + r
       /\ lesson.metadata.example_count = n

SelectionMade == request.op \in {"build_lesson", "generate_lesson"} /\ config # NoConfig

\* C11: when the repository query returns no candidates or fails,
\* select_examples returns the empty list, and build_lesson given an empty
\* selection ends by raising: no lesson is returned for an empty selection.
C11_EmptySelectionFailsTheRequest ==
    SelectionMade =>
    /\ (candidates = <<>> \/ ~request.repository_ok) => selected = <<>>
    /\ selected = <<>> => lesson.error # ""

C11_Witness ==
    /\ request.op = "build_lesson"
    /\ ~request.repository_ok
    /\ puzzle_examples(db, config) # <<>>
    /\ config.example_count > 0
    /\ selected = <<>>
    /\ lesson.error # ""

(***************************************************************************)
(* Properties of estimate_difficulty.                                      *)
(***************************************************************************)
Estimate == estimate.made /\ ~estimate.raised

\* the call left the cache, its counters and its file as it found them
NoEvaluation ==
    /\ estimate.evaluations = 0
    /\ estimate.engine_calls = 0
    /\ DOMAIN cache = estimate.cached_before

\* C14: a call on a terminal checkmate position returns beginner whatever the
\* score and the metadata are, before any other rule, and evaluates nothing.
C14_CheckmateIsBeginner ==
    estimate.made /\ estimate.fen = "fenMate" =>
    /\ ~estimate.raised
    /\ estimate.label = "beginner"
    /\ NoEvaluation

\* a checkmate position given with a mate in three, which alone means advanced
C14_Witness ==
    /\ Estimate
    /\ estimate.fen = "fenMate"
    /\ estimate.info = InfoDict(InfoMateInThree)
    /\ estimate.score = 0
    /\ estimate.label = "beginner"

ForcedMate ==
    /\ Estimate
    /\ ~is_checkmate(estimate.fen)
    /\ has_score_key(estimate.info) \/ has_is_mate(estimate.info)
    /\ is_mate(estimate.info.items)

MateDistance == Abs(white_mate(estimate.info.items).v)

\* C13: on a position that is no checkmate, a forced mate in N gives beginner
\* for |N| = 1 when |score| > 500 and intermediate otherwise, intermediate for
\* |N| = 2 and advanced for |N| >= 3.
C13_MateDistanceLabel ==
    ForcedMate =>
    /\ MateDistance = 1 /\ Abs(estimate.score) > 500 => estimate.label = "beginner"
    /\ MateDistance = 1 /\ Abs(estimate.score) <= 500 => estimate.label = "intermediate"
    /\ MateDistance = 2 => estimate.label = "intermediate"
    /\ MateDistance >= 3 => estimate.label = "advanced"
    /\ NoEvaluation

\* a mate in three for Black with a decisive score
C13_Witness ==
    /\ ForcedMate
    /\ estimate.fen = "fenA"
    /\ estimate.score = -1500
    /\ MateDistance = 3
    /\ estimate.label = "advanced"

\* the call reached the probe of the replies
ProbeCase == Estimate /\ Probes(estimate.score, estimate.info, estimate.fen)

\* the engine answered every reply and no reply was cached before the call
EveryReplyAnswered ==
    /\ estimate.cached_before = {}
    /\ \A i \in DOMAIN estimate.answers : estimate.answers[i].status = "ok"

\* the replies whose own evaluation is decisive, for either side
DecisiveReplies ==
    {i \in DOMAIN estimate.answers :
        Abs(white_score(estimate.answers[i].lines[1]).v) > 1000}

\* C12: with no forced mate and |score| > 1000 the call evaluates every legal
\* reply and counts the decisive ones: exactly one gives advanced, two or
\* three give intermediate, more than three give beginner.
C12_DecisiveReplyCount ==
    ProbeCase /\ EveryReplyAnswered =>
    /\ estimate.evaluations = Len(legal_moves(estimate.fen))
    /\ Cardinality(DecisiveReplies) = 1 => estimate.label = "advanced"
    /\ Cardinality(DecisiveReplies) \in {2, 3} => estimate.label = "intermediate"
    /\ Cardinality(DecisiveReplies) > 3 => estimate.label = "beginner"

\* the metadata is neither a dict holding a score nor a score object
UnexpectedShape == ~has_score_key(estimate.info) /\ ~has_is_mate(estimate.info)

ScoreOnlyBand ==
    IF Abs(estimate.score) > 1000 THEN "beginner"
    ELSE IF Abs(estimate.score) > 200 THEN "intermediate"
    ELSE "advanced"

\* C16 as stated: for every score and every valid or absent position, metadata
\* of an unexpected shape gives the label of the score alone, without failing.
C16_UnexpectedShapeGivesScoreBand ==
    estimate.made /\ UnexpectedShape /\ estimate.fen \in ValidFens \cup {""} =>
    /\ ~estimate.raised
    /\ estimate.label = ScoreOnlyBand

\* C16, amended: the same for every valid position that is no checkmate and
\* for an absent position; nothing is evaluated.
C16_UnexpectedShapeOffCheckmate ==
    /\ estimate.made
    /\ UnexpectedShape
    /\ estimate.fen \in ValidFens \cup {""}
    /\ ~is_checkmate(estimate.fen)
    => /\ ~estimate.raised
       /\ estimate.label = ScoreOnlyBand
       /\ NoEvaluation

\* a cached info dict, which holds no score object, with a score in the
\* lower intermediate band
C16_Witness ==
    /\ Estimate
    /\ estimate.info = InfoDict(serializable_info(InfoWinning))
    /\ estimate.fen = "fenA"
    /\ estimate.score = 201
    /\ estimate.label = "intermediate"

\* the cache keys of the replies of the position at the budget of the probe
ProbeKeys ==
    {generate_key(legal_moves(estimate.fen)[i], 10, 10, 1) :
        i \in DOMAIN legal_moves(estimate.fen)}

\* C15: a call evaluates at most one reply per legal move, each through
\* evaluate_position at time 1.0, depth 10 and one line, and the engine is
\* asked at most once per evaluation.
C15_ProbeIsBoundedAndAtFixedBudget ==
    estimate.made =>
    /\ estimate.evaluations <= Len(legal_moves(estimate.fen))
    /\ estimate.engine_calls <= estimate.evaluations
    /\ DOMAIN cache \ estimate.cached_before \subseteq ProbeKeys

\* every reply of fenA evaluated and stored, the first one found in the cache
C15_Witness ==
    /\ ProbeCase
    /\ estimate.fen = "fenA"
    /\ estimate.evaluations = MaxMoves
    /\ estimate.engine_calls = MaxMoves - 1
    /\ estimate.cached_before # {}
    /\ DOMAIN cache = ProbeKeys

(***************************************************************************)
(* Properties of the candidate scorer and of the flat selection.           *)
(***************************************************************************)
\* 1 - min(popularity / 1000, 1), times 1000
DiversityOf(popularity) == 1000 - Min(popularity, 1000)

\* C17: the diversity component of a candidate's score is (1 - normalized
\* popularity) times the diversity weight whenever its popularity is known,
\* a known 0 included, and 0 when it is absent.
C17_DiversityWheneverPopularityKnown ==
    config # NoConfig =>
    \A i \in DOMAIN candidates :
        diversity_bonus(candidates[i]) =
            IF candidates[i].popularity.known
            THEN (selection_weights.diversity_bonus
                  * DiversityOf(candidates[i].popularity.v)) \div 1000
            ELSE 0

\* the score of the claim, times 30000, with the weights of the request; the
\* request has no weight for the tag, which keeps the selector's
RatingFitTimes(weight, puzzle, cfg) ==
    LET row == difficulty_ranges[cfg.difficulty]
    IN weight - (weight * Abs(puzzle.rating - row.optimal))
                    \div Max(row.optimal - row.min, row.max - row.optimal)

TagRelevanceTimes(weight, puzzle, cfg) ==
    IF puzzle.primary_theme = cfg.theme \/ cfg.theme \in Range(puzzle.themes)
    THEN weight ELSE weight \div 2

RequestWeightedScore(puzzle, cfg) ==
    (cfg.quality_weight * puzzle.quality_score) \div 100
    + RatingFitTimes(cfg.rating_weight, puzzle, cfg)
    + TagRelevanceTimes(selection_weights.theme_relevance, puzzle, cfg)
    + (IF puzzle.popularity.known /\ puzzle.popularity.v # 0
       THEN (cfg.diversity_weight * DiversityOf(puzzle.popularity.v)) \div 1000
       ELSE 0)

\* C18: the score of a candidate is the sum of quality, rating fit, tag
\* relevance and diversity, each times its weight in the request.
C18_ScoreUsesRequestWeights ==
    config # NoConfig =>
    \A i \in DOMAIN candidates :
        calculate_selection_score(candidates[i], config)
            = RequestWeightedScore(candidates[i], config)

FlatRun ==
    /\ config # NoConfig
    /\ ~config.enable_progressive_difficulty
    /\ Len(candidates) > config.example_count

ScoreOf(puzzle) == calculate_selection_score(puzzle, config)

\* the place of a candidate in the repository's answer
PlaceOf(puzzle) == CHOOSE k \in DOMAIN candidates : candidates[k] = puzzle

\* C19: a flat selection from more candidates than requested is the n
\* candidates of highest score, highest first, candidates of equal score in
\* the order the repository gave them.
C19_FlatTakesTopScoresStably ==
    FlatRun =>
    /\ Len(selected) = config.example_count
    /\ Range(selected) \subseteq Range(candidates)
    /\ \A i, j \in DOMAIN selected :
           i < j =>
           \/ ScoreOf(selected[i]) > ScoreOf(selected[j])
           \/ /\ ScoreOf(selected[i]) = ScoreOf(selected[j])
              /\ PlaceOf(selected[i]) < PlaceOf(selected[j])
    /\ \A i \in DOMAIN selected :
           \A c \in Range(candidates) \ Range(selected) :
               \/ ScoreOf(selected[i]) > ScoreOf(c)
               \/ /\ ScoreOf(selected[i]) = ScoreOf(c)
                  /\ PlaceOf(selected[i]) < PlaceOf(c)

\* rows 4 and 2, of equal score, selected in the repository's order, and a
\* candidate of lower score left out
C19_Witness ==
    /\ FlatRun
    /\ \E i \in DOMAIN selected :
           /\ i + 1 \in DOMAIN selected
           /\ selected[i].id = 4
           /\ selected[i + 1].id = 2
           /\ ScoreOf(selected[i]) = ScoreOf(selected[i + 1])
           /\ PlaceOf(selected[i]) < PlaceOf(selected[i + 1])
    /\ \E c \in Range(candidates) \ Range(selected) : TRUE

(***************************************************************************)
(* Properties of generate_lesson's choice of strategy.                     *)
(***************************************************************************)
\* C20: generate_lesson called with progressive_difficulty false selects with
\* the flat strategy, and with the progressive one only when the flag is true.
C20_FlagChoosesStrategy ==
    request.op = "generate_lesson" /\ request.repository_ok /\ config # NoConfig =>
    selected = IF config.progressive_difficulty
               THEN select_progressive_examples(candidates, config,
                                                difficulty_ranges[config.difficulty])
               ELSE select_best_examples(candidates, config)

(***************************************************************************)
(* Properties of the validation gate.                                      *)
(***************************************************************************)
Validated == request.op = "validate_lesson"

\* C21: the gate raises exactly when the title, the introduction or the
\* summary is empty, there is no step, or a step has no title, no body or no
\* position; duplicate order keys and a metadata example_count that differs
\* from the number of example steps are logged and raise nothing.
C21_GateRejectsExactlyIncompleteLessons ==
    Validated =>
    lesson.error # "" <=>
        \/ lesson.title = "" \/ lesson.introduction = "" \/ lesson.summary = ""
        \/ lesson.steps = <<>>
        \/ \E k \in DOMAIN lesson.steps :
               \/ lesson.steps[k].title = ""
               \/ lesson.steps[k].content = ""
               \/ lesson.steps[k].position = ""

\* two complete steps of the same order key, neither of them an example step
\* although the metadata counts two examples: accepted, with both warnings
C21_Witness ==
    /\ Validated
    /\ lesson.error = ""
    /\ Len(lesson.steps) = 2
    /\ lesson.steps[1].order = lesson.steps[2].order
    /\ lesson.metadata.example_count = 2
    /\ lesson.warnings = {"Duplicate step orders detected", "Metadata example count mismatch"}

(***************************************************************************)
(* Properties of the periodic save.                                        *)
(***************************************************************************)
\* C22: the map is written to the file at every tenth set() call at the
\* latest: no more than 9 set() calls are ever made since the last write.
C22_FlushWithinTenSets == unflushed <= 9

(***************************************************************************)
(* Properties of the constructor.                                          *)
(***************************************************************************)
Constructed == ret.op \in {"construct", "construct_raised"}

Fresh(f) == {k \in DOMAIN f.data : now - f.data[k].timestamp < max_age_seconds}

\* C23: constructing the cache over a file that exists never raises; a file
\* that is corrupt or cannot be read gives an empty cache, and a file of
\* entries gives exactly its entries younger than max-age.
C23_LoadNeverRaises ==
    Constructed /\ file.exists =>
    /\ ret.op = "construct"
    /\ file.format # "map" => cache = EmptyMap
    /\ file.format = "map" => cache = [k \in Fresh(file) |-> file.data[k]]

(***************************************************************************)
(* Properties of cleanup_expired.                                          *)
(***************************************************************************)
CleanupStep == ret'.op = "cleanup_expired" /\ calls' = calls + 1

\* C24: a cleanup_expired call removes the entries whose age is at least
\* max-age and no other, leaves the remaining entries as they were, returns
\* the number it removed and leaves the hit and miss counters alone.
C24_CleanupRemovesExactlyTheExpired ==
    [][CleanupStep =>
          /\ DOMAIN cache' = {k \in DOMAIN cache : now - cache[k].timestamp < max_age_seconds}
          /\ \A k \in DOMAIN cache' : cache'[k] = cache[k]
          /\ \A k \in DOMAIN cache' : now' - cache'[k].timestamp < max_age_seconds
          /\ ret'.removed = Cardinality(DOMAIN cache) - Cardinality(DOMAIN cache')
          /\ hits' = hits /\ misses' = misses]_vars

\* a cleanup that removed an entry of age max-age exactly and kept a younger one
C24_Witness ==
    /\ ret.op = "cleanup_expired"
    /\ ret.removed = 1
    /\ ret.cached_before = 2
    /\ Cardinality(DOMAIN cache) = 1
    /\ \E tp \in DOMAIN stored :
           /\ now - stored[tp].timestamp = max_age_seconds
           /\ generate_key(tp[1], tp[2], tp[3], tp[4]) \notin DOMAIN cache

(***************************************************************************)
(* Properties of a failing evaluate_position call.                         *)
(***************************************************************************)
EvaluationRaised == ret.op = "evaluate_raised"

\* C25: an evaluate_position call that fails (engine not available, position
\* not valid, engine failing) raises after at most one engine call, was
\* counted as a miss and leaves no entry for its four-tuple: the same call
\* made again is a miss.
C25_FailureIsNotCached ==
    EvaluationRaised =>
    /\ ret.engine_calls <= 1
    /\ hits = ret.hits_before /\ misses = ret.misses_before + 1
    /\ generate_key(ret.args[1], ret.args[2], ret.args[3], ret.args[4]) \notin DOMAIN cache
    /\ ~cache_get(cache, ret.args[1], ret.args[2], ret.args[3], ret.args[4], now).hit
    /\ Cardinality(DOMAIN cache) <= ret.cached_before

\* the engine failed on a four-tuple whose entry had expired
C25_Witness ==
    /\ EvaluationRaised
    /\ ret.engine_calls = 1
    /\ ret.present_before
    /\ ret.args[1] \in ValidFens

(***************************************************************************)
(* Properties of the bucket targets.                                       *)
(***************************************************************************)
\* C27: for the requested count n the targets of the three buckets are
\* floor(n/3), plus one for the buckets of index below n mod 3, and their sum
\* is n.
C27_BucketTargetsSumToRequested ==
    ProgressiveRun =>
    /\ \A i \in 0 .. 2 :
           bucket_count(config.example_count, i)
               = (config.example_count \div 3) + (IF i < config.example_count % 3 THEN 1 ELSE 0)
    /\ bucket_count(config.example_count, 0) + bucket_count(config.example_count, 1)
           + bucket_count(config.example_count, 2) = config.example_count

\* four requested of more candidates: targets 2, 1 and 1
C27_Witness ==
    /\ ProgressiveRun
    /\ config.example_count = 4
    /\ bucket_count(config.example_count, 0) = 2
    /\ bucket_count(config.example_count, 2) = 1
    /\ Len(selected) = 4

(***************************************************************************)
(* Properties of select_from_position.                                     *)
(***************************************************************************)
\* C29: select_from_position selects with the count its caller gives and
\* returns at most that many examples.
C29_PositionCountIsUsed ==
    request.op = "select_from_position" =>
    /\ config.example_count = request.count
    /\ Len(selected) <= request.count

(***************************************************************************)
(* Properties of the rate limiter.                                         *)
(***************************************************************************)
AfterRequest(kind) == limiter.made /\ limiter.requests > 0 /\ kind

FailedRequest == limiter.outcome.transport_error \/ limiter.outcome.status_code # 200

\* C30: a failed request adds exactly 1 to consecutive_errors and multiplies
\* current_delay once, by 2 for status 429 and by 1.5 otherwise, up to
\* max_delay; a success sets consecutive_errors to 0 and leaves current_delay
\* at min_delay or above.
C30_BackoffAppliedOnce ==
    /\ AfterRequest(FailedRequest) =>
           /\ limiter.state.consecutive_errors = limiter.before.consecutive_errors + 1
           /\ limiter.state.current_delay =
                  RatMin(limiter.before.max_delay,
                         IF limiter.outcome.status_code = 429
                         THEN RatTimes(limiter.before.current_delay, 2, 1)
                         ELSE RatTimes(limiter.before.current_delay, 3, 2))
    /\ AfterRequest(~FailedRequest) =>
           /\ limiter.state.consecutive_errors = 0
           /\ ~RatLess(limiter.state.current_delay, limiter.state.min_delay)

(***************************************************************************)
(* Properties of the cache under two callers.                              *)
(***************************************************************************)
\* C26: with two callers of the shared cache, no call of get, set or
\* cleanup_expired raises, no get returns an entry of age max-age or more,
\* and no entry is deleted while its age is below max-age.
C26_ConcurrentCallsAreSafe ==
    \A t \in Callers :
        /\ threads[t].raised = "none"
        /\ threads[t].value.found => threads[t].age < max_age_seconds
        /\ ~threads[t].lost

(***************************************************************************)
(* Properties of the analysis of a lesson.                                 *)
(***************************************************************************)
\* C28: the label estimated from what evaluate_position returns on a cache
\* hit is the label estimated from what it returned on the miss that stored
\* the entry.
C28_HitGivesTheLabelOfTheMiss ==
    (estimate.made /\ ~estimate.error /\ estimate.hit) => estimate.label = estimate.miss_label

====
